---- MODULE Spec2Model ----
(***************************************************************************)
(* Model of the glossary generator:                                        *)
(*   src/unnamed/part_005   isRateLimitError, retryWithExponentialBackoff, *)
(*                      getOrCreateFirecrawlResponse,                      *)
(*                      getOrCreateFirecrawlResponsesSequentially          *)
(*   src/unnamed/part_006   getOrCreateKeywordsFromTitles,                 *)
(*                      getOrCreateKeywordsFromHeaders                     *)
(*   src/apps/generator /src/trigger/glossary/_generate-glossary-entry.ts  *)
(*                      generateGlossaryEntryTask, scrapeUrlTask,          *)
(*                      keywordResearchTask (batch and sequential),        *)
(*                      generateOutlineTask                                *)
(*   src/apps/generator /src/trigger/glossary/research/technical/          *)
(*                      technicalResearchTask, exaDomainSearchTask,        *)
(*                      evaluateSearchResults, scrapeSearchResults         *)
(*                                                                         *)
(* A run is one keyword research for one term.  In "sequential" mode the   *)
(* URLs are resolved one call at a time; in "batch" mode one scrapeUrlTask *)
(* per URL runs concurrently and the calls interleave at their database    *)
(* accesses.  Strings that the code inspects (error messages) are          *)
(* sequences of tokens; JavaScript null/undefined is Null (NullMsg for a   *)
(* message).                                                               *)
(***************************************************************************)
EXTENDS Naturals, Sequences, FiniteSets

VARIABLES
  firecrawlResponses,  \* the firecrawl_responses table, rows in insertion order
  mode,                \* "sequential" | "batch": which keywordResearchTask runs
  requests,            \* the links of serperOrganicResults, ordered by position
  call,                \* sequential mode: the getOrCreateFirecrawlResponse call in flight
  obs,                 \* sequential mode: what the call in flight has done so far
  stored,              \* sequential mode: per URL, the payload last stored by a successful scrape
  i,                   \* sequential mode: loop index of getOrCreateFirecrawlResponsesSequentially
  results,             \* sequential mode: the results array
  delays,              \* sequential mode: number of inter-request waits awaited
  coordPc,             \* position of the coordinator (either mode)
  tasks,               \* batch mode: the scrapeUrlTask runs, one per batch item
  firecrawlStats,      \* the firecrawlStats of the task's return value
  thrown,              \* classifier: the value a call threw
  classified,          \* classifier: what isRateLimitError and the retry loop made of it
  keywords,            \* the keywords table, rows in insertion order
  kw,                  \* the getOrCreateKeywordsFromHeaders call
  task,                \* the run of keywordResearchTask around the scrape batch
  entries,             \* the entries table: the rows of the term, oldest first
  workflow,            \* the run of generateGlossaryEntryTask
  technicalResearch,   \* the technical_research table: the rows of the term
  exaScrapedResults,   \* the exa_scraped_results table: the rows of the term
  research             \* the run of technicalResearchTask

\* the variables of the scrape coordinators
scrapeVars == <<firecrawlResponses, mode, requests, call, obs, stored, i, results,
                delays, coordPc, tasks, firecrawlStats>>

\* the variables of the classifier
classifierVars == <<thrown, classified>>

\* the variables of getOrCreateKeywordsFromHeaders (it reads firecrawlResponses too)
keywordVars == <<keywords, kw>>

\* the variables of generateGlossaryEntryTask
workflowVars == <<entries, workflow>>

\* the variables of technicalResearchTask
researchVars == <<technicalResearch, exaScrapedResults, research>>

\* the variables the scrape coordinators leave alone
restVars == <<classifierVars, keywordVars, task, workflowVars, researchVars>>

vars == <<scrapeVars, restVars>>

-----------------------------------------------------------------------------
(* Bounds of the model *)

\* longest request list of a run
MaxRequests == 2
\* longest keyword list the LLM returns
MaxKeywords == 2
\* the runs of the workflow for the term
MaxRuns == 2

(* Program constants *)

\* retryWithExponentialBackoff(fn, 3, 2000): max retries
MaxRetries == 3
\* retryWithExponentialBackoff(fn, 3, 2000): base delay in ms
BaseDelay == 2000
\* Math.random() * 1000
JitterRange == 1000
\* error?.statusCode === 429
RateLimitStatus == 429
\* export const THREE = 3
THREE == 3
\* scrapeUrlTask retry: { maxAttempts: 3 }
MaxAttempts == 3

Urls == {"a", "b"}
Term == "term"

Null == "<null>"
NullMsg == <<"<null>">>

\* Math.random() is in [0, 1): the jitter is in [0, 1000); its extremes
Jitters == {0, JitterRange - 1}

Min(x, y) == IF x <= y THEN x ELSE y

RECURSIVE Pow2(_)
Pow2(n) == IF n = 0 THEN 1 ELSE 2 * Pow2(n - 1)

\* JavaScript truthiness of a nullable string column
Truthy(s) == s # Null /\ s # ""
\* JavaScript truthiness of a nullable message
TruthyMsg(m) == m # NullMsg /\ m # <<>>

\* String.prototype.includes
Includes(s, sub) ==
  \E k \in 1..Len(s) : k + Len(sub) - 1 <= Len(s) /\ SubSeq(s, k, k + Len(sub) - 1) = sub

-----------------------------------------------------------------------------
(* Errors a scrape or a database call can throw.  message is <<>> when the  *)
(* thrown value has none; statusCode and status are 0 when absent.          *)

MkError(isErr, code, st, msg) ==
  [instanceofError |-> isErr, statusCode |-> code, status |-> st, message |-> msg]

NoError == MkError(FALSE, 0, 0, <<>>)
\* the thrown value {statusCode: 429}
ErrStatusCode429 == MkError(FALSE, 429, 0, <<>>)
\* an Error with statusCode 400 and message "400"
ErrBadRequest == MkError(TRUE, 400, 0, <<"4", "0", "0">>)
\* what the database client throws
DbError == MkError(TRUE, 0, 0, <<"d", "b">>)

ScrapeErrors == {ErrStatusCode429, ErrBadRequest}

\* String(error) of a thrown value that is no Error
ObjectString == <<"[object Object]">>
UnknownError == <<"Unknown error occurred">>

\* a classifier that looks at the status fields only
IsRateLimitError_StatusOnly(error) ==
  \/ error.statusCode = RateLimitStatus
  \/ error.status = RateLimitStatus

IsRateLimitError(error) ==
  \/ error.statusCode = RateLimitStatus
  \/ (error.message # <<>> /\ Includes(error.message, <<"4", "2", "9">>))
  \/ error.status = RateLimitStatus

\* error instanceof Error ? error.message : String(error)
ErrorMessage(error) ==
  IF error.instanceofError THEN error.message ELSE ObjectString

-----------------------------------------------------------------------------
(* FirecrawlScrapeResult, as firecrawl.scrapeUrl resolves it.  sourceURL is  *)
(* metadata.sourceURL: the requested URL as Firecrawl reports it, or Null.   *)

MkResult(ok, err, md, src) ==
  [success |-> ok, error |-> err, markdown |-> md, sourceURL |-> src]

NoResult == MkResult(FALSE, NullMsg, Null, Null)

ScrapeResults(url) ==
  {MkResult(FALSE, e, Null, Null) : e \in {NullMsg, <<"blocked">>}}
  \cup {MkResult(TRUE, NullMsg, md, src) : md \in {Null, "", "m1", "m2"}, src \in {Null, url}}

\* one invocation of fn: it throws error, or resolves value; jitter is the
\* Math.random() * 1000 drawn if this invocation is retried
MkOutcome(kind, err, val, jit) ==
  [kind |-> kind, error |-> err, value |-> val, jitter |-> jit]

Throws(url) == {MkOutcome("throw", e, NoResult, j) : e \in ScrapeErrors, j \in Jitters}
Resolves(url) == {MkOutcome("return", NoError, v, 0) : v \in ScrapeResults(url)}

-----------------------------------------------------------------------------
(* retryWithExponentialBackoff.  The invocations of fn are given as a       *)
(* script: script[n] is what the n-th invocation does, and the last entry   *)
(* repeats if the loop invokes fn more often than the script is long.       *)

At(script, n) == script[Min(n, Len(script))]

\* a loop that takes no error for final
GivesUp_Never(error) == FALSE

\* if (!isRateLimitError(error)) throw error
GivesUp(error) == ~IsRateLimitError(error)

\* a loop that never takes the retries for exhausted
Exhausted_Never(attempt, maxRetries) == FALSE

\* if (attempt === maxRetries) throw error
Exhausted(attempt, maxRetries) == attempt = maxRetries

\* a delay that starts at twice the base delay
BackoffDelay_OneExponentAhead(baseDelay, attempt, jitter) ==
  baseDelay * Pow2(attempt + 1) + jitter

\* a delay that does not grow with the attempt
BackoffDelay_Constant(baseDelay, attempt, jitter) == baseDelay + jitter

\* baseDelay * Math.pow(2, attempt) + Math.random() * 1000
BackoffDelay(baseDelay, attempt, jitter) == baseDelay * Pow2(attempt) + jitter

Thrown(error, calls, waits, errors) ==
  [threw |-> TRUE, value |-> NoResult, error |-> error,
   calls |-> calls, waits |-> waits, errors |-> errors]

Returned(value, calls, waits, errors) ==
  [threw |-> FALSE, value |-> value, error |-> NoError,
   calls |-> calls, waits |-> waits, errors |-> errors]

NoRetry == Returned(NoResult, 0, <<>>, <<>>)

\* the for loop: attempt is the loop variable, waits the delays awaited so
\* far, errors the errors caught so far (lastError is the last of them)
RECURSIVE RetryLoop(_, _, _, _, _, _)
RetryLoop(script, maxRetries, baseDelay, attempt, waits, errors) ==
  IF attempt > maxRetries
  THEN Thrown(errors[Len(errors)], attempt, waits, errors)
  ELSE LET o == At(script, attempt + 1)
           caught == Append(errors, o.error)
       IN IF o.kind = "return"
          THEN Returned(o.value, attempt + 1, waits, errors)
          ELSE IF GivesUp(o.error)
          THEN Thrown(o.error, attempt + 1, waits, caught)
          ELSE IF Exhausted(attempt, maxRetries)
          THEN Thrown(o.error, attempt + 1, waits, caught)
          ELSE RetryLoop(script, maxRetries, baseDelay, attempt + 1,
                         Append(waits, BackoffDelay(baseDelay, attempt, o.jitter)),
                         caught)

\* a retry loop that goes round once more
RetryWithExponentialBackoff_OneMore(script, maxRetries, baseDelay) ==
  RetryLoop(script, maxRetries + 1, baseDelay, 0, <<>>, <<>>)

RetryWithExponentialBackoff(script, maxRetries, baseDelay) ==
  RetryLoop(script, maxRetries, baseDelay, 0, <<>>, <<>>)

\* the scripts of at most n invocations: throws, then any last invocation
RECURSIVE ScriptsUpTo(_, _)
ScriptsUpTo(url, n) ==
  IF n = 0 THEN {}
  ELSE LET last == {<<o>> : o \in Throws(url) \cup Resolves(url)}
       IN last \cup {<<o>> \o s : o \in Throws(url), s \in ScriptsUpTo(url, n - 1)}

\* what the retried scrape of getOrCreateFirecrawlResponse can come to, per URL
ScrapeRuns ==
  [url \in Urls |->
     {RetryWithExponentialBackoff(s, MaxRetries, BaseDelay) :
        s \in ScriptsUpTo(url, MaxRetries + 1)}]

-----------------------------------------------------------------------------
(* The firecrawl_responses table *)

NoRow ==
  [id |-> 0, sourceUrl |-> Null, markdown |-> Null, success |-> FALSE,
   error |-> NullMsg, inputTerm |-> Null]

\* db.query.firecrawlResponses.findFirst({ where: eq(sourceUrl, url) })
FindFirst(table, url) ==
  LET hits == {k \in 1..Len(table) : table[k].sourceUrl = url}
  IN IF hits = {} THEN NoRow
     ELSE table[CHOOSE k \in hits : \A h \in hits : k <= h]

\* the row that makes an insert of key a duplicate (unique index on source_url), or 0
DuplicateKey(table, key) ==
  LET hits == {k \in 1..Len(table) : table[k].sourceUrl = key}
  IN IF hits = {} THEN 0 ELSE CHOOSE k \in hits : \A h \in hits : k <= h

\* a plain insert: every write is a new row
InsertOnDuplicateKeyUpdate_AlwaysInserts(table, values, set) ==
  Append(table, [f \in DOMAIN NoRow |->
                   IF f = "id" THEN Len(table) + 1 ELSE values[f]])

\* db.insert(firecrawlResponses).values(values).onDuplicateKeyUpdate({ set })
InsertOnDuplicateKeyUpdate(table, values, set) ==
  LET k == DuplicateKey(table, values.sourceUrl)
  IN IF k = 0
     THEN Append(table, [f \in DOMAIN NoRow |->
                           IF f = "id" THEN Len(table) + 1 ELSE values[f]])
     ELSE [table EXCEPT ![k] =
             [f \in DOMAIN NoRow |-> IF f \in DOMAIN set THEN set[f] ELSE @[f]]]

\* the insert of a failure: steps 3 and 5 of getOrCreateFirecrawlResponse
StoreFailure(table, url, message) ==
  InsertOnDuplicateKeyUpdate(table,
    [sourceUrl |-> url, error |-> message, success |-> FALSE,
     inputTerm |-> Term, markdown |-> Null],
    [error |-> message, success |-> FALSE])

\* firecrawlResult.metadata?.sourceURL || args.url
SourceUrlOf(firecrawlResult, url) ==
  IF Truthy(firecrawlResult.sourceURL) THEN firecrawlResult.sourceURL ELSE url

\* an insert of a scraped page that leaves the markdown of a stored row alone
StoreSuccess_KeepsMarkdown(table, firecrawlResult, url) ==
  InsertOnDuplicateKeyUpdate(table,
    [success |-> firecrawlResult.success, markdown |-> firecrawlResult.markdown,
     sourceUrl |-> SourceUrlOf(firecrawlResult, url), error |-> NullMsg,
     inputTerm |-> Term],
    [success |-> TRUE, error |-> NullMsg])

\* the insert of a scraped page: step 4 of getOrCreateFirecrawlResponse
StoreSuccess(table, firecrawlResult, url) ==
  InsertOnDuplicateKeyUpdate(table,
    [success |-> firecrawlResult.success, markdown |-> firecrawlResult.markdown,
     sourceUrl |-> SourceUrlOf(firecrawlResult, url), error |-> NullMsg,
     inputTerm |-> Term],
    [markdown |-> firecrawlResult.markdown, success |-> TRUE, error |-> NullMsg])

-----------------------------------------------------------------------------
(* getOrCreateFirecrawlResponse, one step per database access.  A call is   *)
(* [pc, url, caught, ret]: caught is the error in flight, ret the value     *)
(* returned.  dbOk says whether the step's database access succeeds.  A     *)
(* step that can write gives the new table and the number of upserts it     *)
(* issued (an upsert the database rejects is issued all the same).          *)

IdleCall == [pc |-> "idle", url |-> Null, caught |-> NoError, ret |-> NoRow]
NewCall(url) == [IdleCall EXCEPT !.pc = "lookup", !.url = url]

\* a lookup that takes every row for a miss
LookupStep_AlwaysMisses(c, table, dbOk) ==
  IF ~dbOk THEN [c EXCEPT !.pc = "threw", !.caught = DbError]
  ELSE [c EXCEPT !.pc = "scrape"]

\* 1. findFirst, outside the try: a cache hit returns, a database error propagates
LookupStep(c, table, dbOk) ==
  IF ~dbOk THEN [c EXCEPT !.pc = "threw", !.caught = DbError]
  ELSE LET existing == FindFirst(table, c.url)
       IN IF Truthy(existing.markdown)
          THEN [c EXCEPT !.pc = "returned", !.ret = existing]
          ELSE [c EXCEPT !.pc = "scrape"]

\* firecrawlResult.error || "Unknown error occurred"
ScrapeFailureMessage(firecrawlResult) ==
  IF TruthyMsg(firecrawlResult.error) THEN firecrawlResult.error ELSE UnknownError

\* a scrape step that hands a soft failure back without storing it
ScrapeStep_SoftFailureNotStored(c, table, run, dbOk) ==
  IF run.threw
  THEN [call |-> [c EXCEPT !.pc = "catch", !.caught = run.error], table |-> table,
        upserts |-> 0]
  ELSE IF ~run.value.success
  THEN [call |-> [c EXCEPT !.pc = "returned",
                           !.ret = [NoRow EXCEPT !.sourceUrl = c.url,
                                                 !.error = ScrapeFailureMessage(run.value)]],
        table |-> table, upserts |-> 0]
  ELSE IF ~dbOk
  THEN [call |-> [c EXCEPT !.pc = "catch", !.caught = DbError], table |-> table,
        upserts |-> 1]
  ELSE [call |-> [c EXCEPT !.pc = "reread"],
        table |-> StoreSuccess(table, run.value, c.url),
        upserts |-> 1]

\* 2.-4. the retried scrape, then the insert of its result; run is what
\* retryWithExponentialBackoff came to
ScrapeStep(c, table, run, dbOk) ==
  IF run.threw
  THEN [call |-> [c EXCEPT !.pc = "catch", !.caught = run.error], table |-> table,
        upserts |-> 0]
  ELSE IF ~dbOk
  THEN [call |-> [c EXCEPT !.pc = "catch", !.caught = DbError], table |-> table,
        upserts |-> 1]
  ELSE IF ~run.value.success
  THEN [call |-> [c EXCEPT !.pc = "reread"],
        table |-> StoreFailure(table, c.url, ScrapeFailureMessage(run.value)),
        upserts |-> 1]
  ELSE [call |-> [c EXCEPT !.pc = "reread"],
        table |-> StoreSuccess(table, run.value, c.url),
        upserts |-> 1]

\* return await findFirst(...) inside the try
RereadStep(c, table, dbOk) ==
  IF dbOk THEN [c EXCEPT !.pc = "returned", !.ret = FindFirst(table, c.url)]
  ELSE [c EXCEPT !.pc = "catch", !.caught = DbError]

\* a catch block that lets the error go on to the caller
CatchStoreStep_Rethrows(c, table, dbOk) ==
  [call |-> [c EXCEPT !.pc = "threw"], table |-> table, upserts |-> 0]

\* 5. the catch block stores the error
CatchStoreStep(c, table, dbOk) ==
  IF dbOk
  THEN [call |-> [c EXCEPT !.pc = "catchread"],
        table |-> StoreFailure(table, c.url, ErrorMessage(c.caught)),
        upserts |-> 1]
  ELSE [call |-> [c EXCEPT !.pc = "threw", !.caught = DbError], table |-> table,
        upserts |-> 1]

\* return await findFirst(...) inside the catch block
CatchReadStep(c, table, dbOk) ==
  IF dbOk THEN [c EXCEPT !.pc = "returned", !.ret = FindFirst(table, c.url)]
  ELSE [c EXCEPT !.pc = "threw", !.caught = DbError]

-----------------------------------------------------------------------------
(* Sequential mode: getOrCreateFirecrawlResponsesSequentially and the       *)
(* keywordResearchTask that calls it                                        *)

None == "<none>"

NoObs ==
  [prior |-> None, existing |-> NoRow, run |-> NoRetry, dbFailed |-> FALSE,
   upserts |-> 0, upsertFailed |-> FALSE]

\* what is kept of a run once the call has moved on: the delays and the
\* caught errors are locals of retryWithExponentialBackoff
Forget(run) == [run EXCEPT !.waits = <<>>, !.errors = <<>>]

NoStats == [total |-> 0, successful |-> 0, failed |-> 0, failedUrls |-> <<>>]

\* a count of the rows with content
Successful_HasContent(rows) == SelectSeq(rows, LAMBDA r : Truthy(r.markdown))

\* results.filter(r => r?.success)
Successful(rows) == SelectSeq(rows, LAMBDA r : r.success)
\* results.filter(r => !r?.success)
Failed(rows) == SelectSeq(rows, LAMBDA r : ~r.success)

\* const result = await getOrCreateFirecrawlResponse(request): the call starts
SeqCall ==
  /\ mode = "sequential" /\ coordPc = "running" /\ call.pc = "idle"
  /\ i <= Len(requests)
  /\ call' = NewCall(requests[i])
  /\ obs' = [NoObs EXCEPT !.prior = stored[requests[i]]]
  /\ UNCHANGED <<firecrawlResponses, mode, requests, stored, i, results, delays,
                 coordPc, tasks, firecrawlStats,
               restVars>>

Lookup ==
  /\ mode = "sequential" /\ call.pc = "lookup"
  /\ \E dbOk \in BOOLEAN :
       /\ call' = LookupStep(call, firecrawlResponses, dbOk)
       /\ obs' = [obs EXCEPT !.existing = IF dbOk THEN FindFirst(firecrawlResponses, call.url)
                                          ELSE NoRow,
                             !.dbFailed = ~dbOk]
  /\ UNCHANGED <<firecrawlResponses, mode, requests, stored, i, results, delays,
                 coordPc, tasks, firecrawlStats,
               restVars>>

Scrape ==
  /\ mode = "sequential" /\ call.pc = "scrape"
  /\ \E run \in ScrapeRuns[call.url], dbOk \in BOOLEAN :
       /\ run.threw => dbOk
       /\ LET s == ScrapeStep(call, firecrawlResponses, run, dbOk)
          IN /\ call' = s.call
             /\ firecrawlResponses' = s.table
       /\ obs' = [obs EXCEPT !.run = run, !.dbFailed = ~dbOk,
                             !.upserts = @ + ScrapeStep(call, firecrawlResponses, run, dbOk).upserts,
                             !.upsertFailed = ~dbOk]
       /\ stored' = IF ~run.threw /\ run.value.success /\ dbOk
                    THEN [stored EXCEPT ![call.url] = run.value.markdown]
                    ELSE stored
  /\ UNCHANGED <<mode, requests, i, results, delays, coordPc, tasks, firecrawlStats,
               restVars>>

Reread ==
  /\ mode = "sequential" /\ call.pc = "reread"
  /\ \E dbOk \in BOOLEAN :
       /\ call' = RereadStep(call, firecrawlResponses, dbOk)
       /\ obs' = [obs EXCEPT !.run = Forget(@), !.dbFailed = @ \/ ~dbOk]
  /\ UNCHANGED <<firecrawlResponses, mode, requests, stored, i, results, delays,
                 coordPc, tasks, firecrawlStats,
               restVars>>

CatchStore ==
  /\ mode = "sequential" /\ call.pc = "catch"
  /\ \E dbOk \in BOOLEAN :
       /\ LET s == CatchStoreStep(call, firecrawlResponses, dbOk)
          IN /\ call' = s.call
             /\ firecrawlResponses' = s.table
             /\ obs' = [obs EXCEPT !.run = Forget(@), !.dbFailed = @ \/ ~dbOk,
                                   !.upserts = @ + s.upserts]
  /\ UNCHANGED <<mode, requests, stored, i, results, delays, coordPc, tasks,
                 firecrawlStats,
               restVars>>

CatchRead ==
  /\ mode = "sequential" /\ call.pc = "catchread"
  /\ \E dbOk \in BOOLEAN :
       /\ call' = CatchReadStep(call, firecrawlResponses, dbOk)
       /\ obs' = [obs EXCEPT !.dbFailed = @ \/ ~dbOk]
  /\ UNCHANGED <<firecrawlResponses, mode, requests, stored, i, results, delays,
                 coordPc, tasks, firecrawlStats,
               restVars>>

\* a loop that waits after every request, the last one too
SeqPush_WaitsAfterLast ==
  /\ mode = "sequential" /\ coordPc = "running" /\ call.pc = "returned"
  /\ results' = Append(results, call.ret)
  /\ delays' = delays + 1
  /\ i' = i + 1
  /\ call' = IdleCall
  /\ obs' = NoObs
  /\ UNCHANGED <<firecrawlResponses, mode, requests, stored, coordPc, tasks,
                 firecrawlStats, restVars>>

\* results.push(result); if (i < requests.length - 1) await wait(delayBetweenRequests)
SeqPush ==
  /\ mode = "sequential" /\ coordPc = "running" /\ call.pc = "returned"
  /\ results' = Append(results, call.ret)
  /\ delays' = IF i < Len(requests) THEN delays + 1 ELSE delays
  /\ i' = i + 1
  /\ call' = IdleCall
  /\ obs' = NoObs
  /\ UNCHANGED <<firecrawlResponses, mode, requests, stored, coordPc, tasks,
                 firecrawlStats,
               restVars>>

\* the call threw: nothing catches it in the loop or in the task
SeqThrow ==
  /\ mode = "sequential" /\ coordPc = "running" /\ call.pc = "threw"
  /\ coordPc' = "threw"
  /\ UNCHANGED <<firecrawlResponses, mode, requests, call, obs, stored, i, results,
                 delays, tasks, firecrawlStats,
               restVars>>

\* the loop is over: return results; the task counts them into firecrawlStats
SeqReturn ==
  /\ mode = "sequential" /\ coordPc = "running" /\ call.pc = "idle"
  /\ i > Len(requests)
  /\ firecrawlStats' = [total |-> Len(results),
                        successful |-> Len(Successful(results)),
                        failed |-> Len(Failed(results)),
                        failedUrls |-> <<>>]
  /\ coordPc' = "done"
  /\ UNCHANGED <<firecrawlResponses, mode, requests, call, obs, stored, i, results,
                 delays, tasks,
               restVars>>

-----------------------------------------------------------------------------
(* Batch mode: keywordResearchTask triggers one scrapeUrlTask per URL of    *)
(* topThree with batchTriggerAndWait.  A task is [attempt, call, status,    *)
(* output]; status "COMPLETED" is a batch result with ok, "FAILED" one      *)
(* without.                                                                 *)

\* the run of keywordResearchTask: pc is its position, succeeded the steps
\* that returned, failed the step that threw; "scrape" is the batch; keywords
\* is the keywords array of the return value as far as it is known
NewTask ==
  [pc |-> "existing", cached |-> FALSE, succeeded |-> {}, failed |-> {}, ok |-> FALSE,
   keywords |-> <<>>]

\* a run that has reached the batch
ScrapingTask ==
  [NewTask EXCEPT !.pc = "scrape", !.succeeded = {"existing", "query", "response"}]

\* a step of the run returned: the run goes on to next
StepReturned(t, step, next) ==
  [t EXCEPT !.pc = next, !.succeeded = @ \cup {step}]

\* a step of the run threw; nothing in the run catches it
StepThrew(t, step) == [t EXCEPT !.pc = "threw", !.failed = @ \cup {step}]

\* throw new AbortTaskRunError(...)
StepAborted(t, step) == [t EXCEPT !.pc = "aborted", !.failed = @ \cup {step}]

\* return { message, term, keywords, ... }
Completed(t, step) ==
  [StepReturned(t, step, "completed") EXCEPT !.ok = TRUE]

\* serperOrganicResults.sort(by position).slice(0, THREE), mapped to the links
TopThree == SubSeq(requests, 1, Min(THREE, Len(requests)))

NoOutput ==
  [url |-> Null, success |-> FALSE, error |-> NullMsg, hasContent |-> FALSE,
   result |-> NoRow]

\* the return value of scrapeUrlTask's run
TaskOutput(url, result) ==
  [url |-> url,
   success |-> result.success,
   error |-> IF TruthyMsg(result.error) THEN result.error ELSE NullMsg,
   hasContent |-> Truthy(result.markdown),
   result |-> result]

\* what the retried scrape comes to, without the locals of the retry loop
ScrapeRunsOfTask ==
  [url \in Urls |->
     {[threw |-> r.threw, value |-> r.value, error |-> r.error] : r \in ScrapeRuns[url]}]

\* the task after a step of its call c: the run returns its output, or the
\* call threw and the run is attempted again, at most maxAttempts times
AfterStep(taskRun, c) ==
  IF c.pc = "returned"
  THEN [taskRun EXCEPT !.call = IdleCall, !.status = "COMPLETED",
                    !.output = TaskOutput(c.url, c.ret)]
  ELSE IF c.pc = "threw"
  THEN IF taskRun.attempt < MaxAttempts
       THEN [taskRun EXCEPT !.call = NewCall(c.url), !.attempt = @ + 1]
       ELSE [taskRun EXCEPT !.call = IdleCall, !.status = "FAILED"]
  ELSE [taskRun EXCEPT !.call = c]

\* scrapeUrlTask.batchTriggerAndWait(topThree.map(...))
BatchTrigger ==
  /\ mode = "batch" /\ coordPc = "running" /\ task.pc = "scrape"
  /\ tasks' = [k \in 1..Len(TopThree) |->
                 [attempt |-> 1, call |-> NewCall(TopThree[k]), status |-> "EXECUTING",
                  output |-> NoOutput]]
  /\ coordPc' = "waiting"
  /\ UNCHANGED <<firecrawlResponses, mode, requests, call, obs, stored, i, results,
                 delays, firecrawlStats,
               restVars>>

TaskLookup(k) ==
  /\ tasks[k].call.pc = "lookup"
  /\ \E dbOk \in BOOLEAN :
       tasks' = [tasks EXCEPT ![k] =
                   AfterStep(@, LookupStep(@.call, firecrawlResponses, dbOk))]
  /\ UNCHANGED <<firecrawlResponses, mode, requests, call, obs, stored, i, results,
                 delays, coordPc, firecrawlStats,
               restVars>>

TaskScrape(k) ==
  /\ tasks[k].call.pc = "scrape"
  /\ \E run \in ScrapeRunsOfTask[tasks[k].call.url], dbOk \in BOOLEAN :
       /\ run.threw => dbOk
       /\ LET s == ScrapeStep(tasks[k].call, firecrawlResponses, run, dbOk)
          IN /\ tasks' = [tasks EXCEPT ![k] = AfterStep(@, s.call)]
             /\ firecrawlResponses' = s.table
  /\ UNCHANGED <<mode, requests, call, obs, stored, i, results, delays, coordPc,
                 firecrawlStats,
               restVars>>

TaskReread(k) ==
  /\ tasks[k].call.pc = "reread"
  /\ \E dbOk \in BOOLEAN :
       tasks' = [tasks EXCEPT ![k] =
                   AfterStep(@, RereadStep(@.call, firecrawlResponses, dbOk))]
  /\ UNCHANGED <<firecrawlResponses, mode, requests, call, obs, stored, i, results,
                 delays, coordPc, firecrawlStats,
               restVars>>

TaskCatchStore(k) ==
  /\ tasks[k].call.pc = "catch"
  /\ \E dbOk \in BOOLEAN :
       LET s == CatchStoreStep(tasks[k].call, firecrawlResponses, dbOk)
       IN /\ tasks' = [tasks EXCEPT ![k] = AfterStep(@, s.call)]
          /\ firecrawlResponses' = s.table
  /\ UNCHANGED <<mode, requests, call, obs, stored, i, results, delays, coordPc,
                 firecrawlStats,
               restVars>>

TaskCatchRead(k) ==
  /\ tasks[k].call.pc = "catchread"
  /\ \E dbOk \in BOOLEAN :
       tasks' = [tasks EXCEPT ![k] =
                   AfterStep(@, CatchReadStep(@.call, firecrawlResponses, dbOk))]
  /\ UNCHANGED <<firecrawlResponses, mode, requests, call, obs, stored, i, results,
                 delays, coordPc, firecrawlStats,
               restVars>>

\* the entry of failedResults for one batch result, as the loop pushes it
FailedEntry(taskRun) ==
  IF taskRun.status = "COMPLETED"
  THEN [url |-> taskRun.output.url, error |-> taskRun.output.error]
  ELSE [url |-> "unknown", error |-> <<"Batch task execution failed">>]

\* a result loop that gives up when an item did not scrape successfully
ProcessBatchResults_ThrowsOnFailedItem ==
  /\ mode = "batch" /\ coordPc = "waiting"
  /\ \A k \in 1..Len(tasks) : tasks[k].status # "EXECUTING"
  /\ LET ok == SelectSeq(tasks, LAMBDA t : t.status = "COMPLETED")
         successfulResults == SelectSeq(ok, LAMBDA t : t.output.success)
     IN /\ firecrawlStats' = [NoStats EXCEPT !.total = Len(ok),
                                             !.successful = Len(successfulResults),
                                             !.failed = Len(tasks) - Len(successfulResults)]
        /\ task' = IF Len(successfulResults) < Len(tasks)
                   THEN [task EXCEPT !.pc = "threw"] ELSE task
  /\ coordPc' = "done"
  /\ UNCHANGED <<firecrawlResponses, mode, requests, call, obs, stored, i, results,
                 delays, tasks, classifierVars, keywordVars, workflowVars, researchVars>>

\* for (const batchResult of batchResults) { ... } and the firecrawlStats returned
ProcessBatchResults ==
  /\ mode = "batch" /\ coordPc = "waiting"
  /\ \A k \in 1..Len(tasks) : tasks[k].status # "EXECUTING"
  /\ LET ok == SelectSeq(tasks, LAMBDA t : t.status = "COMPLETED")
         firecrawlResults == [k \in 1..Len(ok) |-> ok[k].output.result]
         successfulResults == SelectSeq(ok, LAMBDA t : t.output.success)
         failedTasks == SelectSeq(tasks,
                          LAMBDA t : ~(t.status = "COMPLETED" /\ t.output.success))
         failedResults == [k \in 1..Len(failedTasks) |-> FailedEntry(failedTasks[k])]
     IN firecrawlStats' = [total |-> Len(firecrawlResults),
                           successful |-> Len(successfulResults),
                           failed |-> Len(failedResults),
                           failedUrls |-> failedResults]
  /\ coordPc' = "done"
  /\ UNCHANGED <<firecrawlResponses, mode, requests, call, obs, stored, i, results,
                 delays, tasks,
               restVars>>

-----------------------------------------------------------------------------
(* isRateLimitError on its own: a thrown value is classified, and a call    *)
(* that always throws it is put through the retry loop.                     *)

\* the messages a thrown value can carry; <<>> is no message
Messages ==
  {<<>>, <<"4", "2", "9">>, <<"e", " ", "4", "2", "9">>, <<"4", "2", "9", "0">>,
   <<"4", "0", "0">>, <<"4", "2", " ", "9">>, <<"9", "2", "4">>, <<"4", "2">>}

\* the status codes a thrown value can carry in statusCode or status; 0 is none
StatusCodes == {0, 400, 404, 429, 500}

ThrownValues ==
  {MkError(isErr, code, st, msg) :
     isErr \in BOOLEAN, code \in StatusCodes, st \in StatusCodes, msg \in Messages}

Unclassified == [pc |-> "thrown", isRateLimit |-> FALSE, run |-> NoRetry]

\* const rateLimited = isRateLimitError(error)
Classify ==
  /\ classified.pc = "thrown"
  /\ classified' = [classified EXCEPT !.pc = "classified",
                                      !.isRateLimit = IsRateLimitError(thrown)]
  /\ UNCHANGED <<scrapeVars, thrown, keywordVars, task, workflowVars, researchVars>>

\* retryWithExponentialBackoff(fn, 3, 2000) of an fn that always throws the value
RetryThrown ==
  /\ classified.pc = "classified"
  /\ \E j \in Jitters :
       classified' =
         [classified EXCEPT
            !.pc = "retried",
            !.run = RetryWithExponentialBackoff(
                      <<MkOutcome("throw", thrown, NoResult, j)>>, MaxRetries, BaseDelay)]
  /\ UNCHANGED <<scrapeVars, thrown, keywordVars, task, workflowVars, researchVars>>

-----------------------------------------------------------------------------
(* getOrCreateKeywordsFromHeaders, one step per awaited call.  A keyword is *)
(* a sequence of characters; a markdown document is named by the value of   *)
(* the markdown column and is a sequence of lines, each a sequence of       *)
(* characters, the last one without a newline after it.                     *)

OtherTerm == "other"

Whitespace == {" ", "\t"}

Documents ==
  [m1 |-> << <<"#", " ", "T">>, <<"#", "#", " ", "I", "n", "t", "r", "o">>, <<"t", "x", "t">> >>,
   m2 |-> << <<"#", " ", "T">>, <<"#", "#", "#", " ", "S", "u", "b">>, <<"#", "#", "x">>, <<"#", "#">> >>,
   m3 |-> << <<"#", "#">>, <<"t", "x", "t">> >>]

\* the lines of a document that /^##\s+(.*)$/gm matches: \s+ takes the
\* whitespace after ## and, when ## ends its line, the newline after it
H2Headers(markdown) ==
  LET doc == Documents[markdown]
  IN SelectSeq([k \in 1..Len(doc) |-> [n |-> k, line |-> doc[k]]],
       LAMBDA l :
         /\ Len(l.line) >= 2 /\ l.line[1] = "#" /\ l.line[2] = "#"
         /\ \/ Len(l.line) >= 3 /\ l.line[3] \in Whitespace
            \/ Len(l.line) = 2 /\ l.n < Len(doc))

\* String.prototype.toLowerCase, character by character
LowerChar(c) ==
  CASE c = "A" -> "a" [] c = "P" -> "p" [] c = "I" -> "i" [] c = "K" -> "k" [] OTHER -> c

ToLowerCase(str) == [k \in 1..Len(str) |-> LowerChar(str[k])]

\* a row of the keywords table; a temporary object has the id 'temp-' + index
KeywordRow(id, term, keyword, sourceUrl, source) ==
  [id |-> id, inputTerm |-> term, keyword |-> keyword, sourceUrl |-> sourceUrl,
   source |-> source]

StoredId(n) == [temp |-> FALSE, n |-> n]
TempId(index) == [temp |-> TRUE, n |-> index]

\* db.query.keywords.findMany({ where: and(eq(inputTerm, term), eq(source, source)) })
FindKeywords(table, term, source) ==
  SelectSeq(table, LAMBDA r : r.inputTerm = term /\ r.source = source)

\* db.query.firecrawlResponses.findMany({ where: eq(inputTerm, term) })
FindResponses(table, term) == SelectSeq(table, LAMBDA r : r.inputTerm = term)

\* a filter that keeps the responses with markdown, error or not
ValidResponses_IgnoresError(firecrawlResults) ==
  SelectSeq(firecrawlResults, LAMBDA response : Truthy(response.markdown))

\* responses with markdown and without error
ValidResponses(firecrawlResults) ==
  SelectSeq(firecrawlResults,
    LAMBDA response : Truthy(response.markdown) /\ ~TruthyMsg(response.error))

\* responses whose markdown has an H2 header
ResponsesWithHeaders(validResponses) ==
  SelectSeq(validResponses, LAMBDA response : H2Headers(response.markdown) # <<>>)

\* the row that makes an insert of (inputTerm, keyword) a duplicate, or 0
DuplicateKeyword(table, values) ==
  LET hits == {k \in 1..Len(table) :
                 table[k].inputTerm = values.inputTerm /\ table[k].keyword = values.keyword}
  IN IF hits = {} THEN 0 ELSE CHOOSE k \in hits : \A h \in hits : k <= h

\* db.insert(keywords).values(rows).onDuplicateKeyUpdate({ set: { updatedAt } }):
\* a duplicate keeps its columns, a new row is appended
RECURSIVE InsertKeywords(_, _)
InsertKeywords(table, rows) ==
  IF rows = <<>> THEN table
  ELSE LET v == Head(rows)
       IN InsertKeywords(
            IF DuplicateKeyword(table, v) = 0
            THEN Append(table, [v EXCEPT !.id = StoredId(Len(table) + 1)])
            ELSE table,
            Tail(rows))

\* the values of the insert: keyword lower-cased, source "headers"
HeaderValues(term, extracted) ==
  [k \in 1..Len(extracted) |->
     KeywordRow(StoredId(0), term, ToLowerCase(extracted[k].keyword),
                extracted[k].sourceUrl, "headers")]

\* the objects returned when the insert failed; index is the array index
TempKeywords(term, extracted) ==
  [k \in 1..Len(extracted) |->
     KeywordRow(TempId(k - 1), term, ToLowerCase(extracted[k].keyword),
                extracted[k].sourceUrl, "headers")]

\* findMany of the stored rows: term, source "headers", keyword inArray the
\* lower-cased extracted keywords
StoredKeywords(table, term, extracted) ==
  SelectSeq(table,
    LAMBDA r : /\ r.inputTerm = term /\ r.source = "headers"
               /\ \E k \in 1..Len(extracted) : r.keyword = ToLowerCase(extracted[k].keyword))

IdleKw ==
  [pc |-> "idle", term |-> Null, extracted |-> <<>>, ret |-> <<>>, caught |-> NoError,
   llmCalls |-> 0, failed |-> {}]

Return(c, value) == [c EXCEPT !.pc = "returned", !.ret = value]

\* an outer handler that passes the error on
OuterCatch_Rethrows(c, site) ==
  [c EXCEPT !.pc = "threw", !.caught = DbError, !.failed = @ \cup {site}]

\* catch (error) { ...; return []; } around the whole body
OuterCatch(c, site) == [Return(c, <<>>) EXCEPT !.failed = @ \cup {site}]

\* an insert handler that gives up the extracted keywords
InsertCatch_ReturnsNothing(c) == [Return(c, <<>>) EXCEPT !.failed = @ \cup {"insert"}]

\* catch (error) { return keywords.map((keyword, index) => ({ id: `temp-${index}`, ... })) }
InsertCatch(c) ==
  [Return(c, TempKeywords(c.term, c.extracted)) EXCEPT !.failed = @ \cup {"insert"}]

\* what generateObject can resolve to: object.keywords
LlmKeywords ==
  {[keyword |-> <<"A", "P", "I">>, sourceUrl |-> "a"],
   [keyword |-> <<"a", "p", "i">>, sourceUrl |-> "b"],
   [keyword |-> <<"K", "e", "y">>, sourceUrl |-> "a"]}

Extractions == UNION {[1..n -> LlmKeywords] : n \in 0..MaxKeywords}

\* const existing = await db.query.keywords.findMany(...); if (existing.length > 0) return existing
KwFindExisting ==
  /\ kw.pc = "existing"
  /\ \E dbOk \in BOOLEAN :
       kw' = IF ~dbOk THEN OuterCatch(kw, "existing")
             ELSE LET existing == FindKeywords(keywords, kw.term, "headers")
                  IN IF Len(existing) > 0 THEN Return(kw, existing)
                     ELSE [kw EXCEPT !.pc = "responses"]
  /\ UNCHANGED <<scrapeVars, classifierVars, keywords, task, workflowVars, researchVars>>

\* the firecrawl responses of the term, and the three filters on them
KwFindResponses ==
  /\ kw.pc = "responses"
  /\ \E dbOk \in BOOLEAN :
       kw' = IF ~dbOk THEN OuterCatch(kw, "responses")
             ELSE LET firecrawlResults == FindResponses(firecrawlResponses, kw.term)
                      validResponses == ValidResponses(firecrawlResults)
                      responsesWithHeaders == ResponsesWithHeaders(validResponses)
                  IN IF Len(firecrawlResults) = 0 THEN Return(kw, <<>>)
                     ELSE IF Len(validResponses) = 0 THEN Return(kw, <<>>)
                     ELSE IF Len(responsesWithHeaders) = 0 THEN Return(kw, <<>>)
                     ELSE [kw EXCEPT !.pc = "llm"]
  /\ UNCHANGED <<scrapeVars, classifierVars, keywords, task, workflowVars, researchVars>>

\* keywordsFromHeaders = await generateObject(...), in its own try
KwGenerate ==
  /\ kw.pc = "llm"
  /\ \/ kw' = [Return(kw, <<>>) EXCEPT !.llmCalls = @ + 1, !.failed = @ \cup {"llm"}]
     \/ \E extracted \in Extractions :
          kw' = IF Len(extracted) = 0
                THEN [Return(kw, <<>>) EXCEPT !.llmCalls = @ + 1]
                ELSE [kw EXCEPT !.pc = "insert", !.extracted = extracted,
                                !.llmCalls = @ + 1]
  /\ UNCHANGED <<scrapeVars, classifierVars, keywords, task, workflowVars, researchVars>>

\* await db.insert(keywords).values(...).onDuplicateKeyUpdate(...), in its own try
KwInsert ==
  /\ kw.pc = "insert"
  /\ \E dbOk \in BOOLEAN :
       IF dbOk
       THEN /\ keywords' = InsertKeywords(keywords, HeaderValues(kw.term, kw.extracted))
            /\ kw' = [kw EXCEPT !.pc = "final"]
       ELSE /\ keywords' = keywords
            /\ kw' = InsertCatch(kw)
  /\ UNCHANGED <<scrapeVars, classifierVars, task, workflowVars, researchVars>>

\* const storedKeywords = await db.query.keywords.findMany(...); return storedKeywords
KwFinalFind ==
  /\ kw.pc = "final"
  /\ \E dbOk \in BOOLEAN :
       kw' = IF dbOk THEN Return(kw, StoredKeywords(keywords, kw.term, kw.extracted))
             ELSE OuterCatch(kw, "final")
  /\ UNCHANGED <<scrapeVars, classifierVars, keywords, task, workflowVars, researchVars>>

\* the firecrawl_responses rows the call can find: per URL one row
ResponseRows(url) ==
  {[id |-> 0, sourceUrl |-> url, markdown |-> md, success |-> e = NullMsg,
    error |-> e, inputTerm |-> Term] :
     md \in {Null, "", "m1", "m2", "m3"}, e \in {NullMsg, <<"blocked">>}}
  \cup {[id |-> 0, sourceUrl |-> url, markdown |-> "m1", success |-> TRUE,
         error |-> NullMsg, inputTerm |-> OtherTerm]}

ResponseTables ==
  {<<>>} \cup {<<r>> : r \in ResponseRows("a")}
  \cup {<<r, q>> : r \in ResponseRows("a"), q \in ResponseRows("b")}

\* the keywords tables the call can start on
KeywordTables ==
  {<<>>,
   <<KeywordRow(StoredId(1), Term, <<"a", "p", "i">>, "a", "titles")>>,
   <<KeywordRow(StoredId(1), Term, <<"k", "e", "y">>, "a", "headers")>>,
   <<KeywordRow(StoredId(1), OtherTerm, <<"a", "p", "i">>, "a", "headers")>>}

-----------------------------------------------------------------------------
(* keywordResearchTask before and after its scrape batch.  The call of      *)
(* getOrCreateKeywordsFromHeaders is not followed here: it returns an       *)
(* array, and its part of the keywords array is left out.                   *)

CacheStrategies == {"stale", "revalidate"}

\* run({ term, onCacheHit }): const existing = await db.query.keywords.findMany(...);
\* a hit returns them
TaskFindExisting ==
  /\ task.pc = "existing"
  /\ \E onCacheHit \in CacheStrategies, dbOk \in BOOLEAN :
       task' = IF ~dbOk THEN StepThrew(task, "existing")
               ELSE IF Len(SelectSeq(keywords, LAMBDA r : r.inputTerm = Term)) > 0
                       /\ onCacheHit = "stale"
               THEN [Completed(task, "existing") EXCEPT
                       !.cached = TRUE,
                       !.keywords = SelectSeq(keywords, LAMBDA r : r.inputTerm = Term)]
               ELSE StepReturned(task, "existing", "query")
  /\ UNCHANGED <<scrapeVars, classifierVars, keywordVars, workflowVars, researchVars>>

\* getOrCreateSearchQuery: an entry with a search query, an entry without, or a throw
TaskSearchQuery ==
  /\ task.pc = "query"
  /\ \E outcome \in {"query", "none", "throw"} :
       task' = CASE outcome = "query" -> StepReturned(task, "query", "response")
                 [] outcome = "none" -> StepAborted(task, "query")
                 [] outcome = "throw" -> StepThrew(task, "query")
  /\ UNCHANGED <<scrapeVars, classifierVars, keywordVars, workflowVars, researchVars>>

\* getOrCreateSearchResponse: its organic results are requests
TaskSearchResponse ==
  /\ task.pc = "response"
  /\ \E threw \in BOOLEAN :
       task' = IF threw THEN StepThrew(task, "response")
               ELSE StepReturned(task, "response", "scrape")
  /\ UNCHANGED <<scrapeVars, classifierVars, keywordVars, workflowVars, researchVars>>

\* the batch is over and its results are counted
AfterBatch == mode = "batch" /\ coordPc = "done" /\ task.pc = "scrape"

\* what generateObject resolves to in getOrCreateKeywordsFromTitles: object.keywords
TitleKeywords == <<[keyword |-> <<"A", "P", "I">>, sourceUrl |-> "a"]>>

\* the values of the insert: keyword lower-cased, source "titles"
TitleValues(term, extracted) ==
  [k \in 1..Len(extracted) |->
     KeywordRow(StoredId(0), term, ToLowerCase(extracted[k].keyword),
                extracted[k].sourceUrl, "titles")]

\* db.query.keywords.findMany({ where: and(eq(keywords.inputTerm, term)) })
ExistingKeywords(table, term) == SelectSeq(table, LAMBDA r : r.inputTerm = term)

\* findMany of the stored rows: term, the source, keyword inArray the
\* lower-cased keywords
StoredRows(table, term, source, values) ==
  SelectSeq(table,
    LAMBDA r : /\ r.inputTerm = term /\ r.source = source
               /\ \E k \in 1..Len(values) : r.keyword = values[k].keyword)

\* getOrCreateKeywordsFromTitles({ term }) when nothing in it throws: the
\* array it returns and the table it leaves
GetOrCreateKeywordsFromTitles(table, term) ==
  LET existing == ExistingKeywords(table, term)
      values == TitleValues(term, TitleKeywords)
      inserted == InsertKeywords(table, values)
  IN IF Len(existing) > 0 THEN [ret |-> existing, table |-> table]
     ELSE [ret |-> StoredRows(inserted, term, "titles", values), table |-> inserted]

\* getOrCreateKeywordsFromTitles: no try around it.  It throws before it
\* wrote (a failed read, no search response, a failed generateObject or
\* insert) or after (the last read failed)
TaskKeywordsFromTitles ==
  /\ AfterBatch
  /\ \E outcome \in {"returned", "threw", "threwAfterInsert"} :
       LET r == GetOrCreateKeywordsFromTitles(keywords, Term)
       IN  /\ task' = IF outcome = "returned"
                      THEN [StepReturned(task, "titles", "headers") EXCEPT
                              !.keywords = r.ret]
                      ELSE StepThrew(task, "titles")
           /\ keywords' = IF outcome = "threw" THEN keywords ELSE r.table
  /\ UNCHANGED <<scrapeVars, classifierVars, kw, workflowVars, researchVars>>

\* getOrCreateKeywordsFromHeaders: it returns an array whatever fails in it
TaskKeywordsFromHeaders ==
  /\ task.pc = "headers"
  /\ task' = StepReturned(task, "headers", "related")
  /\ UNCHANGED <<scrapeVars, classifierVars, keywordVars, workflowVars, researchVars>>

\* searchResponse.serperRelatedSearches, as the values of the insert: the
\* query lower-cased, source "related_searches"
RelatedValues(term) ==
  <<KeywordRow(StoredId(0), term, ToLowerCase(<<"A", "P", "I", " ", "k", "e", "y">>),
               Null, "related_searches")>>

\* await db.insert(keywords).values(related searches).onDuplicateKeyUpdate(...)
TaskInsertRelated ==
  /\ task.pc = "related"
  /\ \E dbOk \in BOOLEAN :
       IF dbOk
       THEN /\ task' = StepReturned(task, "related", "readRelated")
            /\ keywords' = InsertKeywords(keywords, RelatedValues(Term))
       ELSE /\ task' = StepThrew(task, "related")
            /\ keywords' = keywords
  /\ UNCHANGED <<scrapeVars, classifierVars, kw, workflowVars, researchVars>>

\* insertedRelatedSearches = await db.query.keywords.findMany(...);
\* return { ..., keywords: [...keywordsFromTitles, ...keywordsFromHeaders,
\* ...insertedRelatedSearches], ... }
TaskReadRelated ==
  /\ task.pc = "readRelated"
  /\ \E dbOk \in BOOLEAN :
       task' = IF dbOk
               THEN [Completed(task, "readRelated") EXCEPT
                       !.keywords = @ \o StoredRows(keywords, Term, "related_searches",
                                                    RelatedValues(Term))]
               ELSE StepThrew(task, "readRelated")
  /\ UNCHANGED <<scrapeVars, classifierVars, keywordVars, workflowVars, researchVars>>

-----------------------------------------------------------------------------
(* generateGlossaryEntryTask: the lookup of the entry, then one             *)
(* triggerAndWait per step.  A sub-task is what it returns to the workflow: *)
(* ok or not.                                                               *)

\* the sub-tasks in the order of the triggerAndWait calls
Steps ==
  <<"keyword_research", "technical_research", "generate_outline", "draft_sections",
    "content_takeaways", "seo_meta_tags", "generate_faqs", "create_pr">>

\* a row of entries: the columns the workflow reads, TRUE for a column that is
\* set, and dynamicSections, the relation to the sections table, as the number
\* of outlines whose section rows point to the entry; sectionContentTypes is
\* the number of these outlines whose sectionsToKeywords and
\* sectionContentTypes rows are stored too
EntryRow(id, outlines, content, title, description, prUrl) ==
  [id |-> id, inputTerm |-> Term, dynamicSections |-> outlines,
   sectionContentTypes |-> outlines,
   dynamicSectionsContent |-> content, metaTitle |-> title,
   metaDescription |-> description, githubPrUrl |-> prUrl]

NoEntry == EntryRow(0, 0, FALSE, FALSE, FALSE, FALSE)

\* db.query.entries.findFirst({ where: eq(inputTerm, term), orderBy: desc(createdAt) })
LatestEntry(table) == IF table = <<>> THEN NoEntry ELSE table[Len(table)]

\* a cache test that does not look at githubPrUrl
WorkflowCacheHit_WithoutPrUrl(existing, onCacheHit) ==
  /\ existing.dynamicSectionsContent /\ existing.metaTitle
  /\ existing.metaDescription
  /\ onCacheHit = "stale"

\* existing?.dynamicSectionsContent && existing?.metaTitle && existing?.metaDescription
\* && existing?.githubPrUrl && onCacheHit === "stale"
WorkflowCacheHit(existing, onCacheHit) ==
  /\ existing.dynamicSectionsContent /\ existing.metaTitle
  /\ existing.metaDescription /\ existing.githubPrUrl
  /\ onCacheHit = "stale"

\* a run of the workflow: its position, its payload, the sub-tasks it triggered
\* and what they returned, the payloads these sub-tasks gave to the tasks they
\* triggered in turn, whether generateOutlineTask returned the stored outline;
\* and over the runs for the term so far: their number, the strategies they
\* were given and the entries rows they inserted
IdleWorkflow ==
  [pc |-> "idle", onCacheHit |-> "stale", triggered |-> <<>>, outcomes |-> <<>>,
   passedDown |-> {}, outlineFromCache |-> FALSE, cached |-> FALSE, run |-> 0,
   strategies |-> {}, inserted |-> 0]

\* the run after the runs of w, with its payload
NextRun(w, onCacheHit) ==
  [IdleWorkflow EXCEPT !.pc = "start", !.onCacheHit = onCacheHit,
                       !.run = w.run + 1,
                       !.strategies = w.strategies \cup {onCacheHit},
                       !.inserted = w.inserted]

NewWorkflow(onCacheHit) == NextRun(IdleWorkflow, onCacheHit)

\* a workflow that goes on to the next step whatever the step returned
StepResult_IgnoresNotOk(w, ok) ==
  [w EXCEPT !.outcomes = Append(@, ok),
            !.pc = IF Len(w.triggered) = Len(Steps) THEN "checkPr" ELSE "trigger"]

\* if (!result.ok) throw new AbortTaskRunError(...); otherwise on to the next step
StepResult(w, ok) ==
  [w EXCEPT !.outcomes = Append(@, ok),
            !.pc = IF ~ok THEN "aborted"
                   ELSE IF Len(w.triggered) = Len(Steps) THEN "checkPr"
                   ELSE "trigger"]

\* a lookup that sends every run that is not answered from the cache to the
\* insert
WfFindExisting_AlwaysInserts ==
  /\ workflow.pc = "start"
  /\ \E dbOk \in BOOLEAN :
       workflow' =
         IF ~dbOk THEN [workflow EXCEPT !.pc = "threw"]
         ELSE IF WorkflowCacheHit(LatestEntry(entries), workflow.onCacheHit)
         THEN [workflow EXCEPT !.pc = "returned", !.cached = TRUE]
         ELSE [workflow EXCEPT !.pc = "insert"]
  /\ UNCHANGED <<scrapeVars, classifierVars, keywordVars, task, entries, researchVars>>

\* const existing = await db.query.entries.findFirst(...) and the cache test
WfFindExisting ==
  /\ workflow.pc = "start"
  /\ \E dbOk \in BOOLEAN :
       workflow' =
         IF ~dbOk THEN [workflow EXCEPT !.pc = "threw"]
         ELSE IF WorkflowCacheHit(LatestEntry(entries), workflow.onCacheHit)
         THEN [workflow EXCEPT !.pc = "returned", !.cached = TRUE]
         ELSE IF entries = <<>> THEN [workflow EXCEPT !.pc = "insert"]
         ELSE [workflow EXCEPT !.pc = "trigger"]
  /\ UNCHANGED <<scrapeVars, classifierVars, keywordVars, task, entries, researchVars>>

\* if (!existing) await db.insert(entries).values({ inputTerm: term })
WfInsertEntry ==
  /\ workflow.pc = "insert"
  /\ \E dbOk \in BOOLEAN :
       IF dbOk
       THEN /\ entries' = Append(entries, [NoEntry EXCEPT !.id = Len(entries) + 1])
            /\ workflow' = [workflow EXCEPT !.pc = "trigger", !.inserted = @ + 1]
       ELSE /\ entries' = entries
            /\ workflow' = [workflow EXCEPT !.pc = "threw"]
  /\ UNCHANGED <<scrapeVars, classifierVars, keywordVars, task, researchVars>>

\* xTask.triggerAndWait({ term, onCacheHit }): the sub-task is triggered
WfTrigger ==
  /\ workflow.pc = "trigger"
  /\ workflow' =
       [workflow EXCEPT
          !.pc = "waiting",
          !.triggered = Append(@, [task |-> Steps[Len(@) + 1],
                                   onCacheHit |-> workflow.onCacheHit])]
  /\ UNCHANGED <<scrapeVars, classifierVars, keywordVars, task, entries, researchVars>>

\* what can happen in an attempt of generateOutlineTask: the outline is
\* generated and stored; the first read fails or an evaluation is not ok
\* (AbortTaskRunError); a read or a generateObject throws before anything is
\* stored; an insert after the insert of the sections throws
OutlineOutcomes ==
  {"stored", "readFailed", "aborted", "threwBeforeInsert", "threwAfterInsert"}

\* db.insert(sections).values(sectionInsertionPayload) with entryId: existing.id
InsertSections(table) ==
  [table EXCEPT ![Len(table)].dynamicSections = @ + 1]

\* db.insert(sectionsToKeywords).values(...); db.insert(sectionContentTypes).values(...)
InsertAssociations(table) ==
  [table EXCEPT ![Len(table)].sectionContentTypes = @ + 1]

\* a generateOutlineTask that returns the stored outline whatever the strategy
OutlineCacheHit_IgnoresStrategy(existing, onCacheHit) ==
  existing.dynamicSections > 0

\* existing?.dynamicSections && existing.dynamicSections.length > 0
\* && onCacheHit === "stale"
OutlineCacheHit(existing, onCacheHit) ==
  existing.dynamicSections > 0 /\ onCacheHit = "stale"

\* the end of an attempt: retry tells that it threw an error that is not an
\* AbortTaskRunError, cached that it returned the stored outline, ran that it
\* triggered the evaluations
Attempt(ok, retry, cached, ran, table) ==
  [ok |-> ok, retry |-> retry, cached |-> cached, ran |-> ran, table |-> table]

\* one attempt of generateOutlineTask.run({ term, onCacheHit })
GenerateOutline(table, onCacheHit, outcome) ==
  IF outcome = "readFailed" THEN Attempt(FALSE, FALSE, FALSE, FALSE, table)
  ELSE IF OutlineCacheHit(LatestEntry(table), onCacheHit)
  THEN Attempt(TRUE, FALSE, TRUE, FALSE, table)
  ELSE IF table = <<>> THEN Attempt(FALSE, FALSE, FALSE, FALSE, table)
  ELSE IF outcome = "aborted" THEN Attempt(FALSE, FALSE, FALSE, TRUE, table)
  ELSE IF outcome = "threwBeforeInsert" THEN Attempt(FALSE, TRUE, FALSE, TRUE, table)
  ELSE IF outcome = "threwAfterInsert"
  THEN Attempt(FALSE, TRUE, FALSE, TRUE, InsertSections(table))
  ELSE Attempt(TRUE, FALSE, FALSE, TRUE, InsertAssociations(InsertSections(table)))

\* the run of generateOutlineTask with retry: { maxAttempts: 3 }: an attempt
\* that threw is followed by another, on the tables it left
RECURSIVE GenerateOutlineTask(_, _, _, _)
GenerateOutlineTask(table, onCacheHit, outcomes, attempt) ==
  LET r == GenerateOutline(table, onCacheHit, outcomes[attempt])
  IN IF r.retry /\ attempt < MaxAttempts
     THEN LET next == GenerateOutlineTask(r.table, onCacheHit, outcomes, attempt + 1)
          IN  [next EXCEPT !.ran = @ \/ r.ran]
     ELSE r

\* the payload a sub-task gives to a task it triggers: the name of the task
\* and the onCacheHit of the payload, "none" when the payload has none
Payload(name, onCacheHit) == [task |-> name, onCacheHit |-> onCacheHit]

\* the payloads of the tasks that a sub-task triggers when it is not answered
\* from its cache: keywordResearchTask gives scrapeUrlTask { url, connectTo },
\* technicalResearchTask gives exaDomainSearchTask onCacheHitDevOrProd,
\* evaluateSearchResults { inputTerm } and scrapeSearchResults its onCacheHit,
\* generateOutlineTask gives the three evaluations its onCacheHit
PassedDown(step, onCacheHit, development) ==
  IF step = "keyword_research"
  THEN {Payload("scrape_url_batch", "none")}
  ELSE IF step = "technical_research"
  THEN {Payload("exa_domain_search", IF development THEN "stale" ELSE onCacheHit),
        Payload("evaluate-search-results", "none"),
        Payload("scrape_search_results", onCacheHit)}
  ELSE IF step = "generate_outline"
  THEN {Payload("perform_technical_eval", onCacheHit),
        Payload("perform_seo_eval", onCacheHit),
        Payload("perform_editorial_eval", onCacheHit)}
  ELSE {}

\* the sub-task run is over: triggerAndWait resolves to its result.  ran tells
\* whether the sub-task got to trigger its own tasks: it did not when it was
\* answered from its cache or failed before
WfStepReturns ==
  /\ workflow.pc = "waiting"
  /\ LET step == workflow.triggered[Len(workflow.triggered)].task
         After(ok, ran, development) ==
           [StepResult(workflow, ok) EXCEPT
              !.passedDown =
                 IF ran THEN @ \cup PassedDown(step, workflow.onCacheHit, development)
                 ELSE @]
     IN  IF step = "generate_outline"
         THEN \E outcomes \in [1..MaxAttempts -> OutlineOutcomes] :
                LET r == GenerateOutlineTask(entries, workflow.onCacheHit, outcomes, 1)
                IN  /\ workflow' = [After(r.ok, r.ran, FALSE) EXCEPT
                                      !.outlineFromCache = r.cached]
                    /\ entries' = r.table
         ELSE /\ \E ok, ran, development \in BOOLEAN :
                   /\ (ok /\ workflow.onCacheHit = "revalidate" /\ PassedDown(step, "stale", FALSE) # {}) => ran
                   /\ (PassedDown(step, "stale", FALSE) = {}) => (~ran /\ ~development)
                   /\ (step # "technical_research" \/ ~ran) => ~development
                   /\ workflow' = After(ok, ran, development)
              /\ entries' = entries
  /\ UNCHANGED <<scrapeVars, classifierVars, keywordVars, task, researchVars>>

\* if (!pr.output.entry?.id) throw new AbortTaskRunError(...)
WfCheckPr ==
  /\ workflow.pc = "checkPr"
  /\ \E hasId \in BOOLEAN :
       workflow' = [workflow EXCEPT !.pc = IF hasId THEN "final" ELSE "aborted"]
  /\ UNCHANGED <<scrapeVars, classifierVars, keywordVars, task, entries, researchVars>>

\* const generated = await db.query.entries.findFirst(...); return { ... }
WfReturn ==
  /\ workflow.pc = "final"
  /\ \E dbOk \in BOOLEAN :
       workflow' = [workflow EXCEPT !.pc = IF dbOk THEN "returned" ELSE "threw"]
  /\ UNCHANGED <<scrapeVars, classifierVars, keywordVars, task, entries, researchVars>>

\* the event is replayed, or the task is triggered again for the term, once
\* the run before is over
WfRestart ==
  /\ workflow.pc \in {"returned", "aborted", "threw"}
  /\ workflow.run < MaxRuns
  /\ \E onCacheHit \in CacheStrategies : workflow' = NextRun(workflow, onCacheHit)
  /\ UNCHANGED <<scrapeVars, classifierVars, keywordVars, task, entries, researchVars>>

\* the entries tables a first run can start on: no row, or the row of earlier
\* runs with the columns their sub-tasks have set
EntryTables ==
  {<<>>,
   <<EntryRow(1, 0, FALSE, FALSE, FALSE, FALSE)>>,
   <<EntryRow(1, 1, FALSE, FALSE, FALSE, FALSE)>>,
   <<EntryRow(1, 1, TRUE, FALSE, FALSE, FALSE)>>,
   <<EntryRow(1, 1, TRUE, TRUE, TRUE, FALSE)>>,
   <<EntryRow(1, 1, TRUE, TRUE, FALSE, TRUE)>>,
   <<EntryRow(1, 1, TRUE, FALSE, TRUE, TRUE)>>,
   <<EntryRow(1, 1, FALSE, TRUE, TRUE, TRUE)>>,
   <<EntryRow(1, 1, TRUE, TRUE, TRUE, TRUE)>>}

-----------------------------------------------------------------------------
(* technicalResearchTask: the domain searches, their evaluation and the     *)
(* scrape of the results the evaluation included.  The technical_research   *)
(* table holds at most one row per domain category for the term, the        *)
(* exa_scraped_results table one row per URL (hashed_input_term_url_unique);*)
(* both are modelled as the sets of their rows for the term.  A URL is a    *)
(* sequence of characters.                                                  *)

\* the number of domain categories the runs work on, the first ones of
\* domainCategories
MaxCategories == 2

\* the number of results the evaluation includes for a category at most
MaxIncluded == 1

\* domainCategories.map((c) => c.name)
AllDomainCategories == <<"Official", "Community", "Neutral", "Google">>

DomainCategories == {AllDomainCategories[k] : k \in 1..MaxCategories}

\* the URLs the searches and the scraper come up with: one page in three
\* spellings, and another page
PageUrls == {<<"a">>, <<"A">>, <<"a", "/">>, <<"p">>}

\* url.toLowerCase().replace(/\/$/, "")
NormalizeUrl(url) ==
  LET lower == ToLowerCase(url)
  IN  IF Len(lower) > 0 /\ lower[Len(lower)] = "/"
      THEN SubSeq(lower, 1, Len(lower) - 1)
      ELSE lower

\* a row of technical_research for the term: the search response is named by
\* the run that stored it, a searchEvaluation not yet written has evaluated
\* FALSE
SearchRow(domainCategory, response, evaluated, included) ==
  [inputTerm |-> Term, domainCategory |-> domainCategory,
   exaSearchResponseWithoutContent |-> response,
   searchEvaluation |-> [evaluated |-> evaluated, included |-> included]]

\* a row of exa_scraped_results for the term
ScrapedRow(url, domainCategory) ==
  [inputTerm |-> Term, url |-> url, domainCategory |-> domainCategory]

\* the rows of a table for a domain category
RowsOf(table, domainCategory) == {r \in table : r.domainCategory = domainCategory}

\* what a run of exaDomainSearchTask can end in when it searches: results
\* that it stores, no result (AbortTaskRunError), or an error of exa or of
\* the database
SearchOutcomes == {"found", "empty", "threw"}

\* exaDomainSearchTask.run({ inputTerm, onCacheHit, domain }) in run number run
ExaDomainSearch(table, domain, onCacheHit, outcome, run) ==
  IF RowsOf(table, domain) # {} /\ onCacheHit = "stale"
  THEN [ok |-> TRUE, table |-> table]
  ELSE IF outcome # "found"
  THEN [ok |-> FALSE, table |-> table]
  ELSE IF RowsOf(table, domain) # {}
  THEN [ok |-> TRUE,
        table |-> {IF r.domainCategory = domain
                   THEN [r EXCEPT !.exaSearchResponseWithoutContent = run]
                   ELSE r : r \in table}]
  ELSE [ok |-> TRUE,
        table |-> table \cup {SearchRow(domain, run, FALSE, <<>>)}]

\* batch.triggerByTaskAndWait of exaDomainSearchTask for the categories, in
\* the order of domainCategories
RECURSIVE DomainSearches(_, _, _, _, _)
DomainSearches(table, onCacheHit, outcomes, run, k) ==
  IF k > MaxCategories THEN [failed |-> {}, table |-> table]
  ELSE LET domain == AllDomainCategories[k]
           r == ExaDomainSearch(table, domain, onCacheHit, outcomes[domain], run)
           rest == DomainSearches(r.table, onCacheHit, outcomes, run, k + 1)
       IN  [failed |-> rest.failed \cup (IF r.ok THEN {} ELSE {domain}),
            table |-> rest.table]

\* missingDomainCategories.length === 0 && onCacheHit === "stale"
ResearchCacheHit(existingScrapedResults, onCacheHit) ==
  /\ \A c \in DomainCategories : RowsOf(existingScrapedResults, c) # {}
  /\ onCacheHit = "stale"

\* an evaluation that finds a search result for every category
MissingDomainCategories_None(existing) == {}

\* evaluateSearchResults: the categories without a row for the term
MissingDomainCategories(existing) ==
  {c \in DomainCategories : RowsOf(existing, c) = {}}

\* the results with a rating of 7 or more that Gemini can give for a category
IncludedLists == UNION {[1..n -> PageUrls] : n \in 0..MaxIncluded}

\* evaluateSearchResults.run({ inputTerm }): evaluations is "threw" when
\* generateObject throws or returns no evaluation, else the included URLs by
\* category
EvaluateSearchResults(table, evaluations) ==
  IF MissingDomainCategories(table) # {}
  THEN [ok |-> FALSE, outcome |-> "aborted", table |-> table]
  ELSE IF evaluations = <<>>
  THEN [ok |-> FALSE, outcome |-> "threw", table |-> table]
  ELSE [ok |-> TRUE, outcome |-> "returned",
        table |-> {[r EXCEPT !.searchEvaluation =
                      [evaluated |-> TRUE,
                       included |-> evaluations[1][r.domainCategory]]] : r \in table}]

\* evaluationRun.output.flatMap(... searchEvaluation?.included.map(... ) ?? [])
\* with the rows in the order of domainCategories
RECURSIVE IncludedSearchResults(_, _)
IncludedSearchResults(table, k) ==
  IF k > MaxCategories THEN <<>>
  ELSE LET rows == RowsOf(table, AllDomainCategories[k])
           included == IF rows = {} THEN <<>>
                       ELSE (CHOOSE r \in rows : TRUE).searchEvaluation.included
       IN  [n \in 1..Len(included) |->
              [url |-> included[n], domainCategory |-> AllDomainCategories[k]]]
           \o IncludedSearchResults(table, k + 1)

\* includedSearchResults.filter((result, index, self) =>
\*   index === self.findIndex((r) => r.url === result.url))
RECURSIVE UniqueUrls(_)
UniqueUrls(includedSearchResults) ==
  IF includedSearchResults = <<>> THEN <<>>
  ELSE LET n == Len(includedSearchResults)
           last == includedSearchResults[n]
           front == UniqueUrls(SubSeq(includedSearchResults, 1, n - 1))
       IN  IF \E k \in 1..(n - 1) : includedSearchResults[k].url = last.url
           THEN front
           ELSE Append(front, last)

\* is some row of the table stored under the URL, normalised?
IsScraped(table, url) ==
  \E r \in table : NormalizeUrl(r.url) = NormalizeUrl(url)

\* uniqueUrls.filter(({ url }) => !existingResults.some(...))
MissingUrls(uniqueUrls, existingResults) ==
  SelectSeq(uniqueUrls, LAMBDA r : ~IsScraped(existingResults, r.url))

\* a scraper that is only sent the missing URLs
UrlsToScrape_MissingOnly(uniqueUrls, missingUrls, onCacheHit) == missingUrls

\* onCacheHit === "revalidate" ? uniqueUrls : missingUrls
UrlsToScrape(uniqueUrls, missingUrls, onCacheHit) ==
  IF onCacheHit = "revalidate" THEN uniqueUrls ELSE missingUrls

\* what exa.getContents answers: the URLs of its results, no more than it was
\* asked for; strict tells that the database rejects a row without a
\* domain_category
ExaResponses == [urls : SUBSET PageUrls, strict : BOOLEAN]

\* urlsToScrape.find(({ url }) => url === result.url)?.domainCategory
CategoryOf(urlsToScrape, url) ==
  LET found == {k \in 1..Len(urlsToScrape) : urlsToScrape[k].url = url}
  IN  IF found = {} THEN Null
      ELSE urlsToScrape[CHOOSE k \in found : \A j \in found : k <= j].domainCategory

\* db.insert(exaScrapedResults).values(newResults).onDuplicateKeyUpdate(...)
UpsertScraped(table, newResults) ==
  {r \in table : \A n \in newResults : n.url # r.url} \cup newResults

\* the end of a run of scrapeSearchResults: the URLs sent to exa.getContents
\* (sent tells whether it was called), the table and what is returned
ScrapeEnd(outcome, sent, urlsToScrape, table) ==
  [ok |-> outcome \in {"cached", "returned"}, outcome |-> outcome, sent |-> sent,
   urlsToScrape |-> urlsToScrape, table |-> table]

\* scrapeSearchResults.run({ inputTerm, includedSearchResults, onCacheHit })
ScrapeSearchResults(existingResults, includedSearchResults, onCacheHit, response) ==
  LET uniqueUrls == UniqueUrls(includedSearchResults)
      missingUrls == MissingUrls(uniqueUrls, existingResults)
      urlsToScrape == UrlsToScrape(uniqueUrls, missingUrls, onCacheHit)
      requested == {urlsToScrape[k].url : k \in 1..Len(urlsToScrape)}
      scrapingResults == IF Cardinality(response.urls) <= Len(urlsToScrape)
                         THEN response.urls ELSE {}
      newResults == {ScrapedRow(u, CategoryOf(urlsToScrape, u)) : u \in scrapingResults}
      scrapedUrls == UpsertScraped(existingResults, newResults)
  IN  IF onCacheHit = "stale" /\ missingUrls = <<>>
      THEN ScrapeEnd("cached", FALSE, <<>>, existingResults)
      ELSE IF scrapingResults = {}
      THEN ScrapeEnd("aborted", TRUE, urlsToScrape, existingResults)
      ELSE IF response.strict /\ ~(scrapingResults \subseteq requested)
      THEN ScrapeEnd("threw", TRUE, urlsToScrape, existingResults)
      ELSE IF \E k \in 1..Len(urlsToScrape) : ~IsScraped(scrapedUrls, urlsToScrape[k].url)
      THEN ScrapeEnd("aborted", TRUE, urlsToScrape, scrapedUrls)
      ELSE ScrapeEnd("returned", TRUE, urlsToScrape, scrapedUrls)

\* no run of scrapeSearchResults
NoScrape ==
  [called |-> FALSE, onCacheHit |-> "stale", includedSearchResults |-> <<>>,
   existingResults |-> {}, outcome |-> "none", sent |-> FALSE, urlsToScrape |-> <<>>]

\* no run of technicalResearchTask
IdleResearch ==
  [pc |-> "idle", onCacheHit |-> "stale", run |-> 0, previous |-> "none",
   cached |-> FALSE, triggered |-> <<>>, failedSearches |-> {},
   missingAtEvaluation |-> {}, evaluation |-> "none", scrape |-> NoScrape]

\* technicalResearchTask is triggered with { inputTerm, onCacheHit }
NewResearch(onCacheHit, run, previous) ==
  [IdleResearch EXCEPT !.pc = "start", !.onCacheHit = onCacheHit, !.run = run,
                       !.previous = previous]

\* the state the other specifications leave the research variables in
ResearchIdle ==
  /\ technicalResearch = {}
  /\ exaScrapedResults = {}
  /\ research = IdleResearch

\* the lookup of the scraped results and the cache test
ResearchFindExisting ==
  /\ research.pc = "start"
  /\ research' =
       IF ResearchCacheHit(exaScrapedResults, research.onCacheHit)
       THEN [research EXCEPT !.pc = "returned", !.cached = TRUE]
       ELSE [research EXCEPT !.pc = "search"]
  /\ UNCHANGED <<scrapeVars, classifierVars, keywordVars, task, workflowVars,
                 technicalResearch, exaScrapedResults>>

\* step 1: the batch of domain searches; in development they run with "stale"
ResearchDomainSearches ==
  /\ research.pc = "search"
  /\ \E outcomes \in [DomainCategories -> SearchOutcomes], development \in BOOLEAN :
       LET onCacheHitDevOrProd == IF development THEN "stale" ELSE research.onCacheHit
           r == DomainSearches(technicalResearch, onCacheHitDevOrProd, outcomes,
                               research.run, 1)
       IN  /\ technicalResearch' = r.table
           /\ research' = [research EXCEPT
                !.pc = "evaluate",
                !.triggered = Append(@, "exa_domain_search"),
                !.failedSearches = r.failed]
  /\ UNCHANGED <<scrapeVars, classifierVars, keywordVars, task, workflowVars,
                 exaScrapedResults>>

\* step 2: evaluateSearchResults.triggerAndWait({ inputTerm })
ResearchEvaluate ==
  /\ research.pc = "evaluate"
  /\ \E evaluations \in {<<>>} \cup {<<e>> : e \in [DomainCategories -> IncludedLists]} :
       LET r == EvaluateSearchResults(technicalResearch, evaluations)
       IN  /\ technicalResearch' = r.table
           /\ research' = [research EXCEPT
                !.pc = IF r.ok THEN "scrape" ELSE "aborted",
                !.triggered = Append(@, "evaluate-search-results"),
                !.missingAtEvaluation = MissingDomainCategories(technicalResearch),
                !.evaluation = r.outcome]
  /\ UNCHANGED <<scrapeVars, classifierVars, keywordVars, task, workflowVars,
                 exaScrapedResults>>

\* step 3: scrapeSearchResults.triggerAndWait, and the return of the rows
ResearchScrape ==
  /\ research.pc = "scrape"
  /\ \E response \in ExaResponses :
       LET includedSearchResults == IncludedSearchResults(technicalResearch, 1)
           r == ScrapeSearchResults(exaScrapedResults, includedSearchResults,
                                    research.onCacheHit, response)
       IN  /\ exaScrapedResults' = r.table
           /\ research' = [research EXCEPT
                !.pc = IF r.ok THEN "returned" ELSE "aborted",
                !.triggered = Append(@, "scrape-search-results"),
                !.scrape = [called |-> TRUE, onCacheHit |-> research.onCacheHit,
                            includedSearchResults |-> includedSearchResults,
                            existingResults |-> exaScrapedResults,
                            outcome |-> r.outcome, sent |-> r.sent,
                            urlsToScrape |-> r.urlsToScrape]]
  /\ UNCHANGED <<scrapeVars, classifierVars, keywordVars, task, workflowVars,
                 technicalResearch>>

\* the task is triggered again for the term once the run before is over
ResearchRestart ==
  /\ research.pc \in {"returned", "aborted"}
  /\ research.run < MaxRuns
  /\ \E onCacheHit \in CacheStrategies :
       research' = NewResearch(onCacheHit, research.run + 1, research.pc)
  /\ UNCHANGED <<scrapeVars, classifierVars, keywordVars, task, workflowVars,
                 technicalResearch, exaScrapedResults>>

RequestLists == UNION {[1..n -> Urls] : n \in 0..MaxRequests}

\* the state before the coordinator starts, for the coordinators in modes
InitIn(modes) ==
  /\ firecrawlResponses = <<>>
  /\ mode \in modes
  /\ requests \in RequestLists
  /\ call = IdleCall
  /\ obs = NoObs
  /\ stored = [u \in Urls |-> None]
  /\ i = 1
  /\ results = <<>>
  /\ delays = 0
  /\ coordPc = "running"
  /\ tasks = <<>>
  /\ firecrawlStats = NoStats
  /\ thrown = NoError
  /\ classified = Unclassified
  /\ keywords = <<>>
  /\ kw = IdleKw
  /\ task = ScrapingTask
  /\ entries = <<>>
  /\ workflow = IdleWorkflow
  /\ ResearchIdle

Init == InitIn({"sequential", "batch"})

InitSequential == InitIn({"sequential"})

NextSequential ==
  \/ SeqCall \/ Lookup \/ Scrape \/ Reread \/ CatchStore \/ CatchRead
  \/ SeqPush \/ SeqThrow \/ SeqReturn

NextBatch ==
  \/ BatchTrigger \/ ProcessBatchResults
  \/ \E k \in 1..Len(tasks) : TaskLookup(k)
  \/ \E k \in 1..Len(tasks) : TaskScrape(k)
  \/ \E k \in 1..Len(tasks) : TaskReread(k)
  \/ \E k \in 1..Len(tasks) : TaskCatchStore(k)
  \/ \E k \in 1..Len(tasks) : TaskCatchRead(k)

Next == NextSequential \/ NextBatch

\* either coordinator over the requests
Spec == Init /\ [][Next]_vars

\* the sequential coordinator alone: calls one after the other
SpecSequential == InitSequential /\ [][NextSequential]_vars

\* no coordinator runs: the state the other specifications leave the scrape
\* variables in
ScrapeIdle ==
  /\ firecrawlResponses = <<>>
  /\ mode = "sequential"
  /\ requests = <<>>
  /\ call = IdleCall
  /\ obs = NoObs
  /\ stored = [u \in Urls |-> None]
  /\ i = 1
  /\ results = <<>>
  /\ delays = 0
  /\ coordPc = "running"
  /\ tasks = <<>>
  /\ firecrawlStats = NoStats

InitClassifier ==
  /\ ScrapeIdle
  /\ thrown \in ThrownValues
  /\ classified = Unclassified
  /\ keywords = <<>>
  /\ kw = IdleKw
  /\ task = ScrapingTask
  /\ entries = <<>>
  /\ workflow = IdleWorkflow
  /\ ResearchIdle

NextClassifier == Classify \/ RetryThrown

\* the classifier applied to every thrown value of ThrownValues
SpecClassifier == InitClassifier /\ [][NextClassifier]_vars

\* the keywords tables a run of keywordResearchTask can start on: no row, or
\* the rows of an earlier run, from titles and from related searches
TaskKeywordTables ==
  {<<>>,
   <<KeywordRow(StoredId(1), Term, <<"a", "p", "i">>, "a", "titles"),
     KeywordRow(StoredId(2), Term, <<"a", "p", "i", " ", "k", "e", "y">>, Null,
                "related_searches")>>}

InitTask ==
  /\ firecrawlResponses = <<>>
  /\ mode = "batch"
  /\ requests \in RequestLists
  /\ call = IdleCall
  /\ obs = NoObs
  /\ stored = [u \in Urls |-> None]
  /\ i = 1
  /\ results = <<>>
  /\ delays = 0
  /\ coordPc = "running"
  /\ tasks = <<>>
  /\ firecrawlStats = NoStats
  /\ thrown = NoError
  /\ classified = Unclassified
  /\ keywords \in TaskKeywordTables
  /\ kw = IdleKw
  /\ task = NewTask
  /\ entries = <<>>
  /\ workflow = IdleWorkflow
  /\ ResearchIdle

NextTask ==
  \/ TaskFindExisting \/ TaskSearchQuery \/ TaskSearchResponse
  \/ NextBatch
  \/ TaskKeywordsFromTitles \/ TaskKeywordsFromHeaders
  \/ TaskInsertRelated \/ TaskReadRelated

\* one run of keywordResearchTask (batch version), from its first lookup on
SpecTask == InitTask /\ [][NextTask]_vars

InitWorkflow ==
  /\ ScrapeIdle
  /\ thrown = NoError
  /\ classified = Unclassified
  /\ keywords = <<>>
  /\ kw = IdleKw
  /\ task = ScrapingTask
  /\ entries \in EntryTables
  /\ workflow \in {NewWorkflow(onCacheHit) : onCacheHit \in CacheStrategies}
  /\ ResearchIdle

NextWorkflow ==
  \/ WfFindExisting \/ WfInsertEntry \/ WfTrigger \/ WfStepReturns
  \/ WfCheckPr \/ WfReturn \/ WfRestart

\* up to MaxRuns runs of generateGlossaryEntryTask({ term, onCacheHit }) for
\* the term, one after the other
SpecWorkflow == InitWorkflow /\ [][NextWorkflow]_vars

InitKeywords ==
  /\ firecrawlResponses \in ResponseTables
  /\ mode = "sequential"
  /\ requests = <<>>
  /\ call = IdleCall
  /\ obs = NoObs
  /\ stored = [u \in Urls |-> None]
  /\ i = 1
  /\ results = <<>>
  /\ delays = 0
  /\ coordPc = "running"
  /\ tasks = <<>>
  /\ firecrawlStats = NoStats
  /\ thrown = NoError
  /\ classified = Unclassified
  /\ keywords \in KeywordTables
  /\ kw = [IdleKw EXCEPT !.pc = "existing", !.term = Term]
  /\ task = ScrapingTask
  /\ entries = <<>>
  /\ workflow = IdleWorkflow
  /\ ResearchIdle

NextKeywords ==
  \/ KwFindExisting \/ KwFindResponses \/ KwGenerate \/ KwInsert \/ KwFinalFind

\* getOrCreateKeywordsFromHeaders({ term }) on every table of ResponseTables
\* and KeywordTables
SpecKeywords == InitKeywords /\ [][NextKeywords]_vars

InitResearch ==
  /\ ScrapeIdle
  /\ thrown = NoError
  /\ classified = Unclassified
  /\ keywords = <<>>
  /\ kw = IdleKw
  /\ task = ScrapingTask
  /\ entries = <<>>
  /\ workflow = IdleWorkflow
  /\ technicalResearch = {}
  /\ exaScrapedResults = {}
  /\ research \in {NewResearch(onCacheHit, 1, "none") : onCacheHit \in CacheStrategies}

NextResearch ==
  \/ ResearchFindExisting \/ ResearchDomainSearches \/ ResearchEvaluate
  \/ ResearchScrape \/ ResearchRestart

\* up to MaxRuns runs of technicalResearchTask({ inputTerm, onCacheHit }) for
\* the term, one after the other, on tables that are empty at first
SpecResearch == InitResearch /\ [][NextResearch]_vars

-----------------------------------------------------------------------------
(* Properties of getOrCreateFirecrawlResponse, read off the sequential      *)
(* calls: obs.prior is the markdown last stored by a successful scrape of   *)
(* the call's URL, obs.existing the row the lookup found, obs.run what the  *)
(* retried scrape came to, obs.dbFailed whether a database access of the    *)
(* call failed.                                                             *)

CallEnded == call.pc \in {"returned", "threw"}
Scraped == obs.run.calls > 0
ScrapeFailed == Scraped /\ (obs.run.threw \/ ~obs.run.value.success)
ScrapeSucceeded == Scraped /\ ~obs.run.threw /\ obs.run.value.success
\* the state right after the retried scrape, where its delays are still known
LoopThrew == call.pc = "catch" /\ obs.run.threw
LoopReturned == call.pc = "reread" /\ ~obs.run.threw

C2_ScrapeFailureIsReturned ==
  /\ call.pc = "threw" => obs.dbFailed
  /\ (call.pc = "returned" /\ ScrapeFailed /\ ~obs.dbFailed) =>
       /\ ~call.ret.success
       /\ TruthyMsg(call.ret.error)
       /\ call.ret.sourceUrl = call.url

C2_Witness ==
  /\ call.pc = "returned" /\ ~obs.dbFailed
  /\ Scraped /\ ~obs.run.threw /\ ~obs.run.value.success
  /\ ~call.ret.success /\ call.ret.error = <<"blocked">>

C5_OtherErrorsAreNotRetried ==
  /\ (LoopThrew /\ obs.run.errors[1] = ErrBadRequest) =>
       obs.run.calls = 1 /\ obs.run.waits = <<>>
  /\ (call.pc = "returned" /\ obs.run.threw /\ obs.run.error = ErrBadRequest
        /\ ~obs.dbFailed) =>
       ~call.ret.success /\ call.ret.error = <<"4", "0", "0">>

C5_Witness ==
  /\ call.pc = "returned" /\ ~obs.dbFailed
  /\ obs.run.threw /\ obs.run.error = ErrBadRequest /\ obs.run.calls = 1
  /\ ~call.ret.success /\ call.ret.error = <<"4", "0", "0">>

C7_AlwaysRateLimitedFailsAfterThreeWaits ==
  /\ (LoopThrew /\ obs.run.error = ErrStatusCode429) =>
       /\ obs.run.calls = MaxRetries + 1
       /\ Len(obs.run.waits) = 3
       /\ \A k \in 1..(Len(obs.run.waits) - 1) : obs.run.waits[k] < obs.run.waits[k + 1]
  /\ (call.pc = "returned" /\ obs.run.threw /\ obs.run.error = ErrStatusCode429
        /\ ~obs.dbFailed) =>
       ~call.ret.success /\ call.ret.error = ObjectString

\* the largest jitter on every delay but the last
C7_Witness ==
  /\ LoopThrew /\ obs.run.error = ErrStatusCode429
  /\ obs.run.waits = <<BaseDelay + JitterRange - 1, 2 * BaseDelay + JitterRange - 1,
                       4 * BaseDelay>>

\* C8: a call that finds a stored failure of its URL invokes the scrape
\* function before it returns.
C8_NoNegativeCaching ==
  (call.pc = "returned" /\ obs.existing.id # 0 /\ ~obs.existing.success) => Scraped

-----------------------------------------------------------------------------
(* Properties of the coordinators *)

\* the batch results whose scrape did not succeed, by position in topThree
FailedPositions ==
  SelectSeq([k \in 1..Len(tasks) |-> k],
            LAMBDA k : ~(tasks[k].status = "COMPLETED" /\ tasks[k].output.success))

C9_WitnessSequential ==
  /\ mode = "sequential" /\ coordPc = "done"
  /\ Len(requests) = 2
  /\ firecrawlStats.successful = 1 /\ firecrawlStats.failed = 1

\* C10: failedUrls of the batch task's firecrawlStats lists exactly the URLs of
\* topThree whose scrape did not succeed, in order, each with an error message.
C10_FailedUrlsAreTheFailedInputs ==
  (mode = "batch" /\ coordPc = "done") =>
    /\ Len(firecrawlStats.failedUrls) = Len(FailedPositions)
    /\ \A k \in 1..Len(firecrawlStats.failedUrls) :
         /\ k <= Len(FailedPositions)
              => firecrawlStats.failedUrls[k].url = TopThree[FailedPositions[k]]
         /\ TruthyMsg(firecrawlStats.failedUrls[k].error)

-----------------------------------------------------------------------------
(* The rate-limit classifier *)

\* the characters 4, 2, 9 stand next to each other in the message
Mentions429(msg) ==
  \E k \in 1..Len(msg) :
    k + 2 <= Len(msg) /\ msg[k] = "4" /\ msg[k + 1] = "2" /\ msg[k + 2] = "9"

\* C11: isRateLimitError is true exactly for a thrown value whose status code
\* (statusCode or status) is 429 or whose message contains "429"; a value it
\* is false for is thrown on after one invocation, with no wait
C11_RateLimitedExactlyOn429 ==
  /\ classified.pc # "thrown" =>
       (classified.isRateLimit <=>
          \/ thrown.statusCode = 429
          \/ thrown.status = 429
          \/ Mentions429(thrown.message))
  /\ (classified.pc = "retried" /\ ~classified.isRateLimit) =>
       /\ classified.run.threw
       /\ classified.run.error = thrown
       /\ classified.run.calls = 1
       /\ classified.run.waits = <<>>

\* a 400 with no "429" in its message went through the retry loop
C11_Witness ==
  /\ classified.pc = "retried"
  /\ thrown.statusCode = 400
  /\ thrown.status = 0
  /\ thrown.message = <<"4", "2", " ", "9">>
  /\ ~classified.isRateLimit
  /\ classified.run.calls = 1

-----------------------------------------------------------------------------
(* Upserts of one getOrCreateFirecrawlResponse call *)

\* the lookup of the call found a row with markdown
CacheHit == ~obs.dbFailed /\ Truthy(obs.existing.markdown) /\ obs.run = NoRetry

\* the lookup of the call found no row with markdown and the call went on
CacheMiss == obs.run # NoRetry

C13_StorageFailureIsNotThrown ==
  (CallEnded /\ obs.upsertFailed) => call.pc = "returned"

-----------------------------------------------------------------------------
(* The rows of the cache table under concurrent calls *)

\* no two rows of the table have the same key
OneRowPerKey ==
  \A j, k \in 1..Len(firecrawlResponses) :
    firecrawlResponses[j].sourceUrl = firecrawlResponses[k].sourceUrl => j = k

\* scrapeUrlTask run k has just issued an upsert that the database accepted
Wrote(k) ==
  /\ k \in DOMAIN tasks /\ k \in DOMAIN tasks'
  /\ \/ tasks[k].call.pc = "scrape" /\ tasks'[k].call.pc = "reread"
     \/ tasks[k].call.pc = "catch" /\ tasks'[k].call.pc = "catchread"

\* the row of the key carries what the upsert just accepted has set: the
\* columns every upsert sets are success and error
LastWriterWins ==
  \A k \in 1..Len(tasks) :
    Wrote(k) =>
      LET row == FindFirst(firecrawlResponses', tasks[k].call.url)
      IN /\ row.sourceUrl = tasks[k].call.url
         /\ Len(firecrawlResponses') <= Len(firecrawlResponses) + 1
         /\ \A u \in Urls \ {tasks[k].call.url} :
              FindFirst(firecrawlResponses', u) = FindFirst(firecrawlResponses, u)
         /\ tasks[k].call.pc = "catch" =>
              (~row.success /\ row.error = ErrorMessage(tasks[k].call.caught))
         /\ tasks[k].call.pc = "scrape" =>
              \/ row.success /\ row.error = NullMsg
              \/ ~row.success /\ TruthyMsg(row.error)

\* C14: the table never holds two rows for one key, whatever the interleaving
\* of the calls, and an accepted upsert leaves its values in the row of its key
C14_AtMostOneRowPerKey == []OneRowPerKey /\ [][LastWriterWins]_vars

\* two concurrent calls for the same URL have both written, and there is one row
C14_Witness ==
  /\ mode = "batch" /\ Len(tasks) = 2
  /\ tasks[1].call.url = tasks[2].call.url
  /\ tasks[1].call.pc \in {"reread", "catchread"}
  /\ tasks[2].call.pc \in {"reread", "catchread"}
  /\ Len(firecrawlResponses) = 1

-----------------------------------------------------------------------------
(* The items of a batch: request k of the coordinator, in either mode.  The *)
(* code tags a result success or failure only; a row served from the cache  *)
(* is one of the two.                                                       *)

Items == 1..(IF mode = "batch" THEN Len(tasks) ELSE Len(requests))

ItemState(k) ==
  IF mode = "batch"
  THEN IF tasks[k].status = "EXECUTING" THEN "in_flight"
       ELSE IF tasks[k].status = "COMPLETED" /\ tasks[k].output.success THEN "succeeded"
       ELSE "failed"
  ELSE IF k <= Len(results)
       THEN IF results[k].success THEN "succeeded" ELSE "failed"
       ELSE IF k = i /\ call.pc # "idle" THEN "in_flight"
       ELSE "pending"

Terminal(k) == ItemState(k) \in {"succeeded", "failed"}

\* the coordinator has returned or thrown
Stopped == coordPc \in {"done", "threw"}

\* an item in a terminal state stays in it
TerminalStays ==
  \A k \in Items : Terminal(k) => (k \in Items' /\ ItemState(k)' = ItemState(k))

\* C15: when the coordinator is over every item is in a terminal state, and an
\* item in a terminal state never changes state
C15_EveryItemEndsInATerminalState ==
  [](Stopped => \A k \in Items : Terminal(k)) /\ [][TerminalStays]_vars

-----------------------------------------------------------------------------
(* The order of the calls of getOrCreateFirecrawlResponsesSequentially *)

\* a getOrCreateFirecrawlResponse call has started and not yet been consumed
InFlight == call.pc # "idle"

\* C16: while the call for request i is in flight, the calls for requests
\* 1..i-1 have returned and been pushed, i-1 delays have been awaited and
\* no later request has been touched; a run over n >= 1 requests that returns
\* has awaited exactly n-1 delays
C16_OneCallAtATimeWithDelaysBetween ==
  mode = "sequential" =>
    /\ InFlight =>
         /\ i \in 1..Len(requests)
         /\ call.url = requests[i]
         /\ Len(results) = i - 1
         /\ delays = i - 1
    /\ ~InFlight /\ coordPc = "running" =>
         /\ Len(results) = i - 1
         /\ delays = (IF i > Len(requests) /\ i > 1 THEN i - 2 ELSE i - 1)
    /\ coordPc = "done" =>
         /\ Len(results) = Len(requests)
         /\ delays = (IF Len(requests) = 0 THEN 0 ELSE Len(requests) - 1)

\* a run over two requests has returned both results after one delay
C16_Witness ==
  /\ mode = "sequential"
  /\ Len(requests) = 2
  /\ coordPc = "done"
  /\ delays = 1
  /\ Len(results) = 2

-----------------------------------------------------------------------------
(* getOrCreateKeywordsFromHeaders under failures *)

IsArray(v) == DOMAIN v = 1..Len(v)

\* C17: the call never ends by throwing; whatever failed (a findMany, the LLM
\* call, the insert) and whatever the tables hold, it goes on until it returns,
\* and what it returns is an array (empty after every failure but the insert's)
C17_KeywordsFromHeadersNeverThrows ==
  /\ kw.pc # "threw"
  /\ kw.pc = "returned" => IsArray(kw.ret)
  /\ kw.failed # {} => kw.pc = "returned"
  /\ kw.pc \notin {"idle", "returned"} => ENABLED NextKeywords
  /\ (kw.failed \cap {"existing", "responses", "llm", "final"} # {}) => kw.ret = <<>>

\* the last findMany failed after the LLM gave keywords and the insert worked
C17_Witness ==
  /\ kw.pc = "returned"
  /\ kw.failed = {"final"}
  /\ kw.llmCalls = 1
  /\ Len(kw.extracted) = 2
  /\ Len(keywords) > 0
  /\ kw.ret = <<>>

\* the lower-case letter of each upper-case letter of the keywords
LowerOf == [A |-> "a", P |-> "p", I |-> "i", K |-> "k"]

\* str in lower case is low
IsLowerCaseOf(low, str) ==
  /\ Len(low) = Len(str)
  /\ \A j \in 1..Len(str) :
       low[j] = (IF str[j] \in DOMAIN LowerOf THEN LowerOf[str[j]] ELSE str[j])

\* C18: when the insert of a non-empty extracted list fails, the call returns
\* one temporary object per extracted keyword, in order: the keyword in lower
\* case, source "headers", the input term
C18_InsertFailureReturnsTemporaryKeywords ==
  (kw.pc \in {"returned", "threw"} /\ "insert" \in kw.failed) =>
    /\ kw.pc = "returned"
    /\ Len(kw.extracted) > 0
    /\ Len(kw.ret) = Len(kw.extracted)
    /\ \A k \in 1..Len(kw.extracted) :
         /\ IsLowerCaseOf(kw.ret[k].keyword, kw.extracted[k].keyword)
         /\ kw.ret[k].source = "headers"
         /\ kw.ret[k].inputTerm = kw.term
         /\ kw.ret[k].sourceUrl = kw.extracted[k].sourceUrl
         /\ kw.ret[k].id = [temp |-> TRUE, n |-> k - 1]

\* the LLM gave "API" and "Key", the insert failed, two temporary objects came back
C18_Witness ==
  /\ kw.pc = "returned"
  /\ "insert" \in kw.failed
  /\ Len(kw.extracted) = 2
  /\ kw.extracted[1].keyword = <<"A", "P", "I">>
  /\ kw.extracted[2].keyword = <<"K", "e", "y">>
  /\ Len(kw.ret) = 2
  /\ kw.ret[1].keyword = <<"a", "p", "i">>
  /\ kw.ret[2].keyword = <<"k", "e", "y">>
  /\ keywords = <<>>

-----------------------------------------------------------------------------
(* keywordResearchTask and the failures of its scrapes *)

TaskEnded == task.pc \in {"completed", "threw", "aborted"}

\* every scrape of the batch failed: a run that is not ok, or an output with
\* success false
AllScrapesFailed ==
  /\ Len(tasks) > 0
  /\ \A k \in 1..Len(tasks) :
       tasks[k].status = "FAILED" \/ (tasks[k].status = "COMPLETED" /\ ~tasks[k].output.success)

-----------------------------------------------------------------------------
(* The order of the steps of generateGlossaryEntryTask *)

-----------------------------------------------------------------------------
(* Draft sections and content takeaways *)

\* the sub-task named step was triggered by the run and has not returned yet
StepInFlight(step) ==
  /\ workflow.pc = "waiting"
  /\ workflow.triggered[Len(workflow.triggered)].task = step

\* the sub-task named step was triggered by the run
StepTriggered(step) ==
  \E k \in 1..Len(workflow.triggered) : workflow.triggered[k].task = step

\* C21: the draft-sections step and the content-takeaways step run in
\* parallel: content takeaways does not wait for draft sections to finish, so
\* while draft sections is in flight content takeaways has been triggered too
C21_DraftSectionsAndTakeawaysRunInParallel ==
  StepInFlight("draft_sections") => StepTriggered("content_takeaways")

-----------------------------------------------------------------------------
(* The cache of generateGlossaryEntryTask *)

\* the latest entries row of the term has the four generated fields
HasAllFour(table) ==
  /\ table # <<>>
  /\ table[Len(table)].dynamicSectionsContent
  /\ table[Len(table)].metaTitle
  /\ table[Len(table)].metaDescription
  /\ table[Len(table)].githubPrUrl

\* the step is the lookup of a run given "stale", and the lookup did not fail
StaleLookup ==
  /\ workflow.pc = "start" /\ workflow.onCacheHit = "stale"
  /\ workflow'.pc # "start" /\ workflow'.pc # "threw"

\* C24: with onCacheHit = "stale", a run whose latest entries row has
\* dynamicSectionsContent, metaTitle, metaDescription and githubPrUrl returns
\* that entry at once: it triggers no sub-task and writes nothing; when one of
\* the four is missing the run goes on to the steps (after inserting the row
\* when there is none)
C24_StaleRunReturnsACompleteEntryUntouched ==
  [][/\ StaleLookup /\ HasAllFour(entries) =>
          /\ workflow'.pc = "returned" /\ workflow'.cached
          /\ workflow'.triggered = <<>>
          /\ entries' = entries
     /\ StaleLookup /\ ~HasAllFour(entries) =>
          /\ ~workflow'.cached
          /\ workflow'.pc = (IF entries = <<>> THEN "insert" ELSE "trigger")
     /\ workflow.cached => (workflow'.run = workflow.run + 1 /\ entries' = entries)
     /\ workflow.pc = "trigger" /\ workflow.triggered = <<>> =>
          /\ workflow'.triggered = <<[task |-> "keyword_research",
                                      onCacheHit |-> workflow.onCacheHit]>>
    ]_vars

\* a stale run on a complete entry has returned it from the cache: nothing was
\* triggered and no row was inserted
C24_Witness ==
  /\ workflow.pc = "returned" /\ workflow.cached
  /\ workflow.onCacheHit = "stale" /\ workflow.run = 1
  /\ workflow.triggered = <<>> /\ workflow.inserted = 0
  /\ HasAllFour(entries)

\* a stale run on an entry that lacks only githubPrUrl has triggered its first
\* step
C24_WitnessMissingField ==
  /\ workflow.onCacheHit = "stale" /\ workflow.run = 1
  /\ Len(workflow.triggered) = 1
  /\ entries # <<>>
  /\ entries[1].dynamicSectionsContent /\ entries[1].metaTitle
  /\ entries[1].metaDescription /\ ~entries[1].githubPrUrl

-----------------------------------------------------------------------------
(* The entries row of the term *)

\* a run of the workflow is over
RunEnded == workflow.pc \in {"returned", "aborted", "threw"}

\* the run got past `if (!existing) await db.insert(entries)...`
PastInsert ==
  \/ workflow.pc \in {"trigger", "waiting", "checkPr", "final", "aborted"}
  \/ workflow.pc = "returned"
  \/ workflow.pc = "threw" /\ workflow.triggered # <<>>

-----------------------------------------------------------------------------
(* Restarting the workflow *)

\* the runs for the term started on an empty table, were all given the same
\* payload, and the last of them completed all its steps
RestartedUntilComplete ==
  /\ workflow.pc = "returned" /\ ~workflow.cached
  /\ workflow.inserted = 1
  /\ workflow.strategies = {workflow.onCacheHit}

\* C22: the workflow is idempotent under restart: when a run is aborted after
\* some step and restarted for the term until it completes, the stored rows are
\* those of one uninterrupted run: one entries row with the sections of one
\* outline
C22_RestartLeavesTheRowsOfOneRun ==
  RestartedUntilComplete =>
    /\ Len(entries) = 1
    /\ entries[1].dynamicSections = 1

-----------------------------------------------------------------------------
(* The cache strategy handed down by the workflow *)

\* C23: the cache strategy given to generateGlossaryEntryTask is passed down
\* to all tasks: every sub-task the workflow triggers, and every task these
\* trigger in turn, receives an onCacheHit equal to the workflow's
C23_StrategyIsPassedDownToAllTasks ==
  /\ \A k \in 1..Len(workflow.triggered) :
       workflow.triggered[k].onCacheHit = workflow.onCacheHit
  /\ \A p \in workflow.passedDown : p.onCacheHit = workflow.onCacheHit

-----------------------------------------------------------------------------
(* Termination of retryWithExponentialBackoff *)

RECURSIVE SumOf(_)
SumOf(s) == IF s = <<>> THEN 0 ELSE s[1] + SumOf(Tail(s))

\* the bounds of the backoff waits after the failures 0 .. maxRetries - 1
BackoffBounds(maxRetries, baseDelay) ==
  [n \in 1..maxRetries |-> baseDelay * Pow2(n - 1) + JitterRange]

\* the retried scrape of the call is over and its waits are still known
LoopRan == LoopThrew \/ LoopReturned

\* C25: retryWithExponentialBackoff ends after at most maxRetries + 1
\* invocations of the wrapped function and at most maxRetries waits, one wait
\* between two invocations; it ends by returning the value of the last
\* invocation or by throwing its error; each wait is below its backoff bound
\* and the total wait below the sum of the bounds
C25_RetryEndsWithinItsBounds ==
  LoopRan =>
    /\ obs.run.calls \in 1..(MaxRetries + 1)
    /\ Len(obs.run.waits) = obs.run.calls - 1
    /\ Len(obs.run.waits) <= MaxRetries
    /\ obs.run.threw =>
         /\ Len(obs.run.errors) = obs.run.calls
         /\ obs.run.error = obs.run.errors[obs.run.calls]
         /\ (obs.run.calls = MaxRetries + 1 \/ ~IsRateLimitError(obs.run.error))
    /\ ~obs.run.threw =>
         /\ Len(obs.run.errors) = obs.run.calls - 1
         /\ obs.run.value \in ScrapeResults(call.url)
    /\ \A n \in 1..Len(obs.run.waits) :
         obs.run.waits[n] < BackoffBounds(MaxRetries, BaseDelay)[n]
    /\ SumOf(obs.run.waits) < SumOf(BackoffBounds(MaxRetries, BaseDelay))

\* the wrapped function was rate limited three times and returned its value
\* at the fourth invocation, after three waits with the largest jitter
C25_Witness ==
  /\ LoopRan /\ ~obs.run.threw
  /\ obs.run.calls = MaxRetries + 1
  /\ Len(obs.run.waits) = MaxRetries
  /\ \A n \in 1..MaxRetries :
       obs.run.waits[n] = BaseDelay * Pow2(n - 1) + JitterRange - 1

-----------------------------------------------------------------------------
(* Stored rows under concurrent calls *)

\* C26: under every interleaving of getOrCreateFirecrawlResponse calls for
\* the same URL, every stored row with non-empty markdown has success = true
\* and error = null
C26_StoredMarkdownMeansStoredSuccess ==
  \A n \in 1..Len(firecrawlResponses) :
    Truthy(firecrawlResponses[n].markdown) =>
      /\ firecrawlResponses[n].success
      /\ firecrawlResponses[n].error = NullMsg

-----------------------------------------------------------------------------
(* The firecrawlStats of keywordResearchTask *)

-----------------------------------------------------------------------------
(* The keywords array returned by keywordResearchTask *)

\* no stored row is in the list twice
NoRowTwice(list) ==
  \A a, b \in 1..Len(list) : (a # b /\ ~list[a].id.temp) => list[a].id # list[b].id

\* C28: the keywords array returned by keywordResearchTask holds each stored
\* keyword row at most once, whatever the keywords table held before and
\* whichever strategy the run was given
C28_EachKeywordRowAtMostOnce ==
  task.pc = "completed" => NoRowTwice(task.keywords)

-----------------------------------------------------------------------------
(* When getOrCreateKeywordsFromHeaders calls the LLM *)

\* header keywords are stored for the term of the call
HeaderKeywordsStored ==
  \E n \in 1..Len(keywords) :
    keywords[n].inputTerm = kw.term /\ keywords[n].source = "headers"

\* a firecrawl response of the term has markdown, no error and an H2 header
UsableResponse ==
  \E n \in 1..Len(firecrawlResponses) :
    /\ firecrawlResponses[n].inputTerm = kw.term
    /\ Truthy(firecrawlResponses[n].markdown)
    /\ ~TruthyMsg(firecrawlResponses[n].error)
    /\ H2Headers(firecrawlResponses[n].markdown) # <<>>

\* C29: getOrCreateKeywordsFromHeaders calls the LLM only when no header
\* keywords are stored for the term and a firecrawl response of the term has
\* markdown, no error and an H2 header, and then once; a call that does not
\* call the LLM writes nothing to the keywords table and returns the stored
\* header keywords or an empty array
C29_LlmOnlyWithoutStoredKeywordsAndWithHeaders ==
  /\ [](/\ kw.llmCalls <= 1
        /\ kw.llmCalls > 0 => UsableResponse
        /\ (kw.pc = "returned" /\ kw.llmCalls = 0) =>
             IF HeaderKeywordsStored /\ "existing" \notin kw.failed
             THEN kw.ret = FindKeywords(keywords, kw.term, "headers")
             ELSE kw.ret = <<>>
        /\ kw.pc # "threw")
  /\ [][/\ kw'.llmCalls # kw.llmCalls => (~HeaderKeywordsStored /\ UsableResponse)
        /\ keywords' # keywords => kw.llmCalls > 0
        /\ (kw.pc = "existing" /\ HeaderKeywordsStored) => kw'.pc = "returned"
       ]_vars

\* the LLM was called: no header keywords were stored and the response of URL
\* "a" has an H2 header; the keywords it gave are stored and returned
C29_Witness ==
  /\ kw.pc = "returned" /\ kw.llmCalls = 1 /\ kw.failed = {}
  /\ UsableResponse
  /\ Len(kw.ret) > 0 /\ kw.ret = FindKeywords(keywords, kw.term, "headers")

\* the responses of the term have markdown without an H2 header: the call
\* returned an empty array without calling the LLM
C29_WitnessNoHeaders ==
  /\ kw.pc = "returned" /\ kw.llmCalls = 0 /\ kw.failed = {}
  /\ ~HeaderKeywordsStored /\ ~UsableResponse
  /\ \E n \in 1..Len(firecrawlResponses) :
       /\ firecrawlResponses[n].inputTerm = kw.term
       /\ firecrawlResponses[n].markdown = "m2"
       /\ ~TruthyMsg(firecrawlResponses[n].error)
  /\ kw.ret = <<>>

-----------------------------------------------------------------------------
(* The keywords generateOutlineTask gives to the initial outline prompt *)

\* contentKeywords = await db.query.keywords.findMany({ where: and(or(eq(source,
\* "headers"), eq(source, "title")), eq(inputTerm, term)) })
ContentKeywords(table, term) ==
  SelectSeq(table,
    LAMBDA r : (r.source = "headers" \/ r.source = "title") /\ r.inputTerm = term)

\* the "FROM PAGE TITLES" list: contentKeywords.filter((k) => k.source === "title")
FromPageTitles(contentKeywords) ==
  SelectSeq(contentKeywords, LAMBDA k : k.source = "title")

\* C32: every keyword that getOrCreateKeywordsFromTitles stored for the term
\* is among the content keywords generateOutlineTask reads for the term, in
\* the list of the keywords from page titles
C32_TitleKeywordsReachTheOutlinePrompt ==
  "titles" \in task.succeeded =>
    \A n \in 1..Len(task.keywords) :
      task.keywords[n].source = "titles" =>
        \E k \in 1..Len(FromPageTitles(ContentKeywords(keywords, Term))) :
          FromPageTitles(ContentKeywords(keywords, Term))[k] = task.keywords[n]

-----------------------------------------------------------------------------
(* The outline served from the cache *)

\* C31: whenever generateOutlineTask returns the sections of the entry from
\* its cache, the run that stored them also stored their keyword associations
\* and content types: every outline whose sections are stored is complete
C31_CachedOutlineIsComplete ==
  (workflow.outlineFromCache /\ entries # <<>>) =>
    LatestEntry(entries).sectionContentTypes = LatestEntry(entries).dynamicSections

-----------------------------------------------------------------------------
(* The scrape of the included search results *)

\* the URLs of a list of results
UrlsIn(list) == {list[k].url : k \in 1..Len(list)}

\* C35: scrapeSearchResults sends to the scraper each URL at most once: with
\* "stale" the included URLs that no stored row matches (none at all when
\* every one is matched), with "revalidate" all the included URLs; when it
\* returns, every URL it set out to scrape has a stored row for the term, up
\* to case and a trailing slash, and when it does not return the run of
\* technicalResearchTask aborts
C35_ScrapesTheMissingUrlsAndStoresThemAll ==
  LET s == research.scrape
  IN  s.called =>
        /\ \A j, k \in 1..Len(s.urlsToScrape) :
             s.urlsToScrape[j].url = s.urlsToScrape[k].url => j = k
        /\ s.onCacheHit = "stale" =>
             UrlsIn(s.urlsToScrape) =
               {u \in UrlsIn(s.includedSearchResults) :
                  \A r \in s.existingResults : NormalizeUrl(r.url) # NormalizeUrl(u)}
        /\ s.onCacheHit = "revalidate" =>
             UrlsIn(s.urlsToScrape) = UrlsIn(s.includedSearchResults)
        /\ s.sent = (s.onCacheHit = "revalidate" \/ s.urlsToScrape # <<>>)
        /\ s.outcome \in {"cached", "returned"} =>
             /\ research.pc = "returned"
             /\ \A u \in UrlsIn(s.urlsToScrape) :
                  \E r \in exaScrapedResults : NormalizeUrl(r.url) = NormalizeUrl(u)
        /\ s.outcome \notin {"cached", "returned"} => research.pc = "aborted"

\* a stale scrape that returned after it had skipped an included URL stored
\* under another spelling and had scraped another one
C35_Witness ==
  LET s == research.scrape
  IN  /\ s.called /\ s.onCacheHit = "stale" /\ s.outcome = "returned"
      /\ s.urlsToScrape # <<>>
      /\ \E u \in UrlsIn(s.includedSearchResults) :
           /\ u \notin {r.url : r \in s.existingResults}
           /\ u \notin UrlsIn(s.urlsToScrape)

-----------------------------------------------------------------------------
(* The steps of technicalResearchTask *)

\* C33: the scrape is triggered only after the evaluation returned; the
\* evaluation aborts, and the run with it, whenever a domain category has no
\* stored search result for the term; so a failed domain search for a
\* category that has no stored search result makes the run abort without a
\* scrape
C33_FailedSearchWithoutStoredResultAborts ==
  /\ research.scrape.called => research.evaluation = "returned"
  /\ (research.evaluation # "none" /\ research.missingAtEvaluation # {}) =>
       research.evaluation = "aborted" /\ research.pc = "aborted"
  /\ (\E c \in research.failedSearches : RowsOf(technicalResearch, c) = {}) =>
       /\ research.pc \in {"evaluate", "aborted"}
       /\ ~research.scrape.called

\* a run that aborted in the evaluation after the search of a category
\* without a stored result had failed
C33_Witness ==
  /\ research.pc = "aborted" /\ research.evaluation = "aborted"
  /\ \E c \in research.failedSearches : RowsOf(technicalResearch, c) = {}
  /\ ~research.scrape.called

\* C33 as stated: a failed domain search for any one category makes the run
\* abort without a scrape
C33_AnyFailedSearchAborts ==
  research.failedSearches # {} =>
    /\ research.pc \in {"evaluate", "aborted"}
    /\ ~research.scrape.called

\* C34: a stale run that immediately follows a run that completed is a cache
\* hit: it triggers no domain search, no evaluation and no scrape
C34_StaleRunAfterACompletedRunIsACacheHit ==
  (research.previous = "returned" /\ research.onCacheHit = "stale"
     /\ research.pc # "start") =>
    research.cached /\ research.triggered = <<>>

====
